---- MODULE Spec2Model ----
(***************************************************************************)
(* Smart Garden Planner: POST /api/recommendations.                        *)
(*                                                                         *)
(* Two entry points serve the endpoint:                                    *)
(*   "service": src/routes/recommendations.py, which delegates to          *)
(*              GenAIAgentService (src/backend/services/llm_service.py)    *)
(*              behind the validate_llm_service dependency;                *)
(*   "backend": src/backend/routes/recommendations.py, which derives the   *)
(*              context, calls the agent and parses the reply inline.      *)
(*                                                                         *)
(* Texts the code inspects by substring (error messages) are sequences of  *)
(* words; texts it only measures (plant fields) are strings; the model's   *)
(* completion is a sequence of lexical pieces (fences, prose, JSON texts); *)
(* a location is a sequence of characters.                                 *)
(*                                                                         *)
(* Five specifications share the variables:                                *)
(*   Spec            the handling of POSTs and health probes;              *)
(*   LogServiceSpec  LoggingService.log_request on its database session    *)
(*                   (src/backend/services/logging_service.py);            *)
(*   ContextSpec     the functions of the context deriver, one call each;  *)
(*   FunctionSpec    the plant validation loop and the failure classifier, *)
(*                   one call each;                                        *)
(*   ConcurrentSpec  two requests in flight together, the clock and the    *)
(*                   object store of the backups.                          *)
(***************************************************************************)
EXTENDS Integers, Sequences, FiniteSets, TLC

\* ------------------------------------------------------------------ bounds
MaxRequests == 1     \* requests one run of the server handles
MaxMixed == 1        \* longest plants array drawn entry by entry
MaxPlants == 11      \* longest plants array of one repeated entry
MaxUnconfigured == 3 \* requests one run of a server whose gate is closed handles
MaxWrites == 2       \* calls of LoggingService.log_request in one run

\* ------------------------------------------------------- schema constants
LocationMinLen == 3
LocationMaxLen == 100
NameMinLen == 1
NameMaxLen == 100
ScientificMinLen == 1
ScientificMaxLen == 150
TextMinLen == 10
TextMaxLen == 500
SeasonMinLen == 5
SeasonMaxLen == 100
MinItems == 1
MaxItems == 10

DirectionEnum == {"N", "NE", "E", "SE", "S", "SW", "W", "NW"}
WaterLevelEnum == {"Low", "Medium", "High"}
MaintenanceLevelEnum == {"Low", "Medium", "High"}
GardenTypeEnum == {"Native Plants", "Flower Garden", "Vegetable Garden", "Mixed Garden"}
SunRequirementEnum == {"Full Sun", "Partial Sun", "Partial Shade", "Shade"}

\* --------------------------------------------------------------- helpers
\* dict.get(key, default)
Get(d, k, default) == IF k \in DOMAIN d THEN d[k] ELSE default

\* str.lower() of one word
Lower(w) ==
    CASE w = "Invalid" -> "invalid"
      [] w = "JSON" -> "json"
      [] w = "API" -> "api"
      [] w = "Authentication" -> "authentication"
      [] w = "Rate" -> "rate"
      [] w = "Request" -> "request"
      [] w = "GenAI" -> "genai"
      [] w = "Agent" -> "agent"
      [] w = "Failed" -> "failed"
      [] w = "Missing" -> "missing"
      [] w = "No" -> "no"
      [] w = "Empty" -> "empty"
      [] w = "Could" -> "could"
      [] w = "Expecting" -> "expecting"
      [] w = "Extra" -> "extra"
      [] w = "All" -> "all"
      [] w = "RecommendationResponse" -> "recommendationresponse"
      [] w = "Not" -> "not"
      [] w = "Configured" -> "configured"
      [] w = "Timeout" -> "timeout"
      [] w = "Key" -> "key"
      [] w = "Limit" -> "limit"
      [] OTHER -> w

\* str.lower() of a text
LowerText(t) == [i \in 1..Len(t) |-> Lower(t[i])]

\* phrase in text: the phrase occurs as a contiguous run of the text
Contains(text, phrase) ==
    \E i \in 0..(Len(text) - Len(phrase)) :
        \A j \in 1..Len(phrase) : text[i + j] = phrase[j]

\* ------------------------------------------------- request schema (pydantic)
\* A location is a sequence of characters.
IsBlank(v) == \A i \in 1..Len(v) : v[i] = " "

\* len(v.split(','))
SplitCount(v) == Cardinality({i \in 1..Len(v) : v[i] = ","}) + 1

\* RecommendationRequest.validate_location, after the Field length constraints
ValidLocation(v) ==
    /\ Len(v) >= LocationMinLen
    /\ Len(v) <= LocationMaxLen
    /\ ~(v = <<>> \/ IsBlank(v))
    /\ SplitCount(v) >= 2

\* RecommendationRequest(**body) succeeds
ValidRequest(body) ==
    /\ {"location", "direction", "water", "maintenance", "garden_type"} \subseteq DOMAIN body
    /\ ValidLocation(body.location)
    /\ body.direction \in DirectionEnum
    /\ body.water \in WaterLevelEnum
    /\ body.maintenance \in MaintenanceLevelEnum
    /\ body.garden_type \in GardenTypeEnum

\* --------------------------------------------------- Plant schema (pydantic)
PlantFields ==
    {"name", "scientific", "sun", "water", "maintenance", "plant_now",
     "care_instructions", "notes"}

\* pydantic's bool parsing of a JSON value: true/false and the accepted words
BoolTrue == {"true", "yes", "on", "1"}
BoolFalse == {"false", "no", "off", "0"}

\* Plant(**d) succeeds
ValidPlant(d) ==
    /\ PlantFields \subseteq DOMAIN d
    /\ Len(d.name) >= NameMinLen /\ Len(d.name) <= NameMaxLen
    /\ Len(d.scientific) >= ScientificMinLen /\ Len(d.scientific) <= ScientificMaxLen
    /\ d.sun \in SunRequirementEnum
    /\ d.water \in WaterLevelEnum
    /\ d.maintenance \in MaintenanceLevelEnum
    /\ d.plant_now \in BoolTrue \cup BoolFalse
    /\ Len(d.care_instructions) >= TextMinLen /\ Len(d.care_instructions) <= TextMaxLen
    /\ Len(d.notes) >= TextMinLen /\ Len(d.notes) <= TextMaxLen

\* The Plant object built from a valid d: the eight fields only, plant_now a bool
Plant(d) ==
    [name |-> d.name, scientific |-> d.scientific, sun |-> d.sun, water |-> d.water,
     maintenance |-> d.maintenance, plant_now |-> (d.plant_now \in BoolTrue),
     care_instructions |-> d.care_instructions, notes |-> d.notes]

\* The remapping reading the entry under the Plant field names
MapPlantUnmapped(plant_data) ==
    [name |-> Get(plant_data, "name", "Unknown Plant"),
     scientific |-> Get(plant_data, "scientific", "Unknown species"),
     sun |-> Get(plant_data, "sun", "Partial Sun"),
     water |-> Get(plant_data, "water", "Medium"),
     maintenance |-> Get(plant_data, "maintenance", "Medium"),
     plant_now |-> Get(plant_data, "plant_now", "false"),
     care_instructions |-> Get(plant_data, "care_instructions", "No care instructions available"),
     notes |-> Get(plant_data, "notes", "No additional notes available")]

\* The field remapping of the backend entry point, with its per-field defaults
MapPlant(plant_data) ==
    [name |-> Get(plant_data, "name", "Unknown Plant"),
     scientific |-> Get(plant_data, "scientific_name", "Unknown species"),
     sun |-> Get(plant_data, "sun_requirements", "Partial Sun"),
     water |-> Get(plant_data, "water_needs", "Medium"),
     maintenance |-> Get(plant_data, "maintenance_level", "Medium"),
     plant_now |-> Get(plant_data, "plant_now", "false"),
     care_instructions |-> Get(plant_data, "description", "No care instructions available"),
     notes |-> Get(plant_data, "description", "No additional notes available")]

\* ValidResponse without the upper limit on the number of plants
ValidResponseNoMax(season, plants) ==
    /\ Len(season) >= SeasonMinLen /\ Len(season) <= SeasonMaxLen
    /\ Len(plants) >= MinItems

\* RecommendationResponse(...) succeeds: season length and the plants count
ValidResponse(season, plants) ==
    /\ Len(season) >= SeasonMinLen /\ Len(season) <= SeasonMaxLen
    /\ Len(plants) >= MinItems
    /\ Len(plants) <= MaxItems

\* The backend loop with the Plant validation left out: every entry is kept
BackendValidatePlantsUnchecked(arr) == [i \in 1..Len(arr) |-> Plant(MapPlant(arr[i]))]

\* The backend loop leaving at the first entry that fails (break for continue)
RECURSIVE BackendValidatePlantsBreak(_)
BackendValidatePlantsBreak(arr) ==
    IF arr = <<>> THEN <<>>
    ELSE LET mapped == MapPlant(Head(arr))
         IN  IF ValidPlant(mapped)
             THEN <<Plant(mapped)>> \o BackendValidatePlantsBreak(Tail(arr))
             ELSE <<>>

\* The validation loop of the backend entry point: remap, validate, skip failures
RECURSIVE BackendValidatePlants(_)
BackendValidatePlants(arr) ==
    IF arr = <<>> THEN <<>>
    ELSE LET mapped == MapPlant(Head(arr))
             rest == BackendValidatePlants(Tail(arr))
         IN  IF ValidPlant(mapped) THEN <<Plant(mapped)>> \o rest ELSE rest

\* The validation loop of the service: validate each entry as it is, skip failures
RECURSIVE ServiceValidatePlants(_)
ServiceValidatePlants(arr) ==
    IF arr = <<>> THEN <<>>
    ELSE LET rest == ServiceValidatePlants(Tail(arr))
         IN  IF ValidPlant(Head(arr)) THEN <<Plant(Head(arr))>> \o rest ELSE rest

\* ------------------------------------------------------- context deriver
\* str.lower() of one character
LowerChar(c) ==
    CASE c = "A" -> "a"
      [] c = "B" -> "b"
      [] c = "C" -> "c"
      [] c = "D" -> "d"
      [] c = "E" -> "e"
      [] c = "F" -> "f"
      [] c = "G" -> "g"
      [] c = "H" -> "h"
      [] c = "I" -> "i"
      [] c = "J" -> "j"
      [] c = "K" -> "k"
      [] c = "L" -> "l"
      [] c = "M" -> "m"
      [] c = "N" -> "n"
      [] c = "O" -> "o"
      [] c = "P" -> "p"
      [] c = "Q" -> "q"
      [] c = "R" -> "r"
      [] c = "S" -> "s"
      [] c = "T" -> "t"
      [] c = "U" -> "u"
      [] c = "V" -> "v"
      [] c = "W" -> "w"
      [] c = "X" -> "x"
      [] c = "Y" -> "y"
      [] c = "Z" -> "z"
      [] OTHER -> c

\* str.lower() of a sequence of characters
str_lower(s) == [i \in 1..Len(s) |-> LowerChar(s[i])]

\* The lookup table of get_hardiness_zone, in the order the dictionary is written
zone_map ==
    << [city |-> <<"d", "e", "n", "v", "e", "r">>, zone |-> "5b"],
       [city |-> <<"c", "o", "l", "o", "r", "a", "d", "o">>, zone |-> "5b"],
       [city |-> <<"s", "e", "a", "t", "t", "l", "e">>, zone |-> "8b"],
       [city |-> <<"p", "o", "r", "t", "l", "a", "n", "d">>, zone |-> "8b"],
       [city |-> <<"b", "o", "s", "t", "o", "n">>, zone |-> "6b"],
       [city |-> <<"n", "e", "w", " ", "y", "o", "r", "k">>, zone |-> "7a"],
       [city |-> <<"c", "h", "i", "c", "a", "g", "o">>, zone |-> "6a"],
       [city |-> <<"a", "t", "l", "a", "n", "t", "a">>, zone |-> "8a"],
       [city |-> <<"m", "i", "a", "m", "i">>, zone |-> "10b"],
       [city |-> <<"l", "o", "s", " ", "a", "n", "g", "e", "l", "e", "s">>, zone |-> "10a"],
       [city |-> <<"p", "h", "o", "e", "n", "i", "x">>, zone |-> "9b"],
       [city |-> <<"a", "u", "s", "t", "i", "n">>, zone |-> "8b"],
       [city |-> <<"d", "a", "l", "l", "a", "s">>, zone |-> "8a"] >>

\* The zone returned when no key of the table occurs
DefaultZone == "6b"

\* for city, zone in zone_map.items(): if city in location_lower: return zone
RECURSIVE zone_lookup(_, _)
zone_lookup(location_lower, i) ==
    IF i > Len(zone_map) THEN DefaultZone
    ELSE IF Contains(location_lower, zone_map[i].city) THEN zone_map[i].zone
    ELSE zone_lookup(location_lower, i + 1)

\* The lookup on the location as it was written, without location.lower()
get_hardiness_zone_as_written(location) == zone_lookup(location, 1)

\* get_hardiness_zone
get_hardiness_zone(location) == zone_lookup(str_lower(location), 1)

\* The season switch with every boundary one month late
get_current_season_late(zone, month) ==
    IF month \in {4, 5, 6} THEN "Spring Planting Season"
    ELSE IF month \in {7, 8, 9} THEN "Summer Growing Season"
    ELSE IF month \in {10, 11, 12} THEN "Fall Planting Season"
    ELSE "Winter Planning Season"

\* get_current_season(zone) of the backend entry point, month being
\* datetime.now().month
get_current_season(zone, month) ==
    IF month \in {3, 4, 5} THEN "Spring Planting Season"
    ELSE IF month \in {6, 7, 8} THEN "Summer Growing Season"
    ELSE IF month \in {9, 10, 11} THEN "Fall Planting Season"
    ELSE "Winter Planning Season"

\* GenAIAgentService._get_current_season
service_get_current_season(month) ==
    IF month \in {12, 1, 2} THEN "Winter - Indoor planning season"
    ELSE IF month \in {3, 4, 5} THEN "Spring - Prime planting season"
    ELSE IF month \in {6, 7, 8} THEN "Summer - Maintenance and late planting"
    ELSE "Fall - Fall planting and preparation season"

\* str.upper() of a direction code
Upper(direction) ==
    CASE direction = "n" -> "N"
      [] direction = "ne" -> "NE"
      [] direction = "e" -> "E"
      [] direction = "se" -> "SE"
      [] direction = "s" -> "S"
      [] direction = "sw" -> "SW"
      [] direction = "w" -> "W"
      [] direction = "nw" -> "NW"
      [] direction = "Ne" -> "NE"
      [] direction = "x" -> "X"
      [] OTHER -> direction

\* sun_map of map_direction_to_sun
sun_map(code) ==
    CASE code = "N" -> "shade"
      [] code \in {"NE", "NW"} -> "partial shade"
      [] code \in {"E", "W", "SE", "SW"} -> "partial sun"
      [] code = "S" -> "full sun"

\* The lookup falling back on the text _get_sun_exposure falls back on
map_direction_to_sun_unknown(direction) ==
    IF Upper(direction) \in DirectionEnum THEN sun_map(Upper(direction))
    ELSE "Unknown sun exposure"

\* map_direction_to_sun: sun_map.get(direction.upper(), 'partial sun')
map_direction_to_sun(direction) ==
    IF Upper(direction) \in DirectionEnum THEN sun_map(Upper(direction))
    ELSE "partial sun"

\* GenAIAgentService._get_sun_exposure
get_sun_exposure(direction) ==
    CASE direction = "N" -> "Shade to Partial Shade (north-facing)"
      [] direction = "NE" -> "Partial Shade (northeast-facing)"
      [] direction = "NW" -> "Partial Shade (northwest-facing)"
      [] direction = "E" -> "Partial Sun (east-facing, morning sun)"
      [] direction = "W" -> "Partial Sun (west-facing, afternoon sun)"
      [] direction = "SE" -> "Partial Sun to Full Sun (southeast-facing)"
      [] direction = "SW" -> "Partial Sun to Full Sun (southwest-facing)"
      [] direction = "S" -> "Full Sun (south-facing)"
      [] OTHER -> "Unknown sun exposure"

\* ------------------------------------------------------- gateway settings
\* An environment value is "unset" (absent or empty), "blank" (white space only)
\* or "set".
EnvValues == {"unset", "blank", "set"}

\* Python truthiness of an environment value
Truthy(v) == v # "unset"

\* str.strip() of an environment value
StripEnv(v) == IF v = "blank" THEN "unset" ELSE v

\* GenAIAgentService._is_configured
is_configured(api_key, endpoint) ==
    /\ Truthy(api_key) /\ Truthy(StripEnv(api_key))
    /\ Truthy(endpoint) /\ Truthy(StripEnv(endpoint))

\* The guard of call_genai_agent, negated: DO_AGENT_API_KEY and DO_AGENT_BASE_URL
agent_configured(api_key, base_url) == Truthy(api_key) /\ Truthy(base_url)

\* ------------------------------------------------- parsing the completion
\* A completion is a sequence of pieces: "FENCE_JSON" (three backquotes followed
\* by json), "FENCE" (three backquotes), "NL" (a line break), "txt" (prose
\* without braces or fences), and brace-delimited texts: "OBJ" (a well-formed
\* JSON object), "BAD" (malformed: a property name is expected), "CTL"
\* (malformed: a raw control character inside a string).
Pieces == {"FENCE_JSON", "FENCE", "NL", "txt", "OBJ", "BAD", "CTL"}
BracePieces == {"OBJ", "BAD", "CTL"}

\* str.strip()
RECURSIVE LStrip(_)
LStrip(t) == IF t # <<>> /\ Head(t) = "NL" THEN LStrip(Tail(t)) ELSE t

RECURSIVE RStrip(_)
RStrip(t) ==
    IF t # <<>> /\ t[Len(t)] = "NL" THEN RStrip(SubSeq(t, 1, Len(t) - 1)) ELSE t

Strip(t) == RStrip(LStrip(t))

\* str(e) of the json.JSONDecodeError raised for a text that is not one JSON value
DecodeError(t) ==
    IF t = <<>> THEN <<"Expecting", "value", ":", "line", "1", "column", "1">>
    ELSE IF Head(t) = "OBJ" THEN <<"Extra", "data", ":", "line", "1", "column", "9">>
    ELSE IF Head(t) = "BAD"
         THEN <<"Expecting", "property", "name", "enclosed", "in", "double", "quotes">>
    ELSE IF Head(t) = "CTL"
         THEN <<"Invalid", "control", "character", "at", ":", "line", "1", "column", "9">>
    ELSE <<"Expecting", "value", ":", "line", "1", "column", "1">>

\* json.loads(t): white space around the one value is skipped
JsonLoads(t) ==
    IF Strip(t) = <<"OBJ">> THEN [ok |-> TRUE]
    ELSE [ok |-> FALSE, error |-> DecodeError(Strip(t))]

\* str.find(sub, start) over pieces, 0-based, -1 when absent; subs are the pieces
\* the sought text starts (a search for a bare fence also finds "FENCE_JSON")
FindFrom(t, subs, start) ==
    IF \E i \in (start + 1)..Len(t) : t[i] \in subs
    THEN (CHOOSE i \in (start + 1)..Len(t) :
              /\ t[i] \in subs
              /\ \A j \in (start + 1)..(i - 1) : t[j] \notin subs) - 1
    ELSE -1

\* t[a:b] of Python, b possibly negative
Slice(t, a, b) ==
    LET e == IF b < 0 THEN Len(t) + b ELSE b
    IN  IF e <= a THEN <<>> ELSE SubSeq(t, a + 1, e)

\* The greedy brace regex of re.search: from the first opening brace to the last
\* closing brace
BraceMatch(t) ==
    LET idx == {i \in 1..Len(t) : t[i] \in BracePieces}
    IN  IF idx = {} THEN [found |-> FALSE]
        ELSE [found |-> TRUE,
              group |-> SubSeq(t, CHOOSE i \in idx : \A j \in idx : i <= j,
                                  CHOOSE i \in idx : \A j \in idx : i >= j)]

\* An operation that may raise returns [ok |-> TRUE, ...] or
\* [ok |-> FALSE, error |-> str(e)].

\* The body of the inner try of parse_agent_response: strict parsing, then the
\* extraction fallbacks. A fence is one piece, so the +7 and +3 character
\* offsets are one piece each.
ParseContent(content) ==
    IF JsonLoads(content).ok THEN [ok |-> TRUE]
    ELSE IF \E i \in 1..Len(content) : content[i] = "FENCE_JSON"
    THEN LET json_start == FindFrom(content, {"FENCE_JSON"}, 0) + 1
             json_end == FindFrom(content, {"FENCE", "FENCE_JSON"}, json_start)
         IN  JsonLoads(Strip(Slice(content, json_start, json_end)))
    ELSE IF \E i \in 1..Len(content) : content[i] = "FENCE"
    THEN LET json_start == FindFrom(content, {"FENCE", "FENCE_JSON"}, 0) + 1
             json_end == FindFrom(content, {"FENCE", "FENCE_JSON"}, json_start)
         IN  JsonLoads(Strip(Slice(content, json_start, json_end)))
    ELSE IF BraceMatch(content).found THEN JsonLoads(BraceMatch(content).group)
    ELSE [ok |-> FALSE,
          error |-> <<"Could", "not", "extract", "JSON", "from", "agent", "response">>]

ParseFailedPrefix == <<"Failed", "to", "parse", "agent", "response", ":">>

\* parse_agent_response of the backend entry point
parse_agent_response(agent_response) ==
    LET choices == agent_response.choices
        inner ==
            IF choices = <<>>
            THEN [ok |-> FALSE, error |-> <<"No", "choices", "in", "agent", "response">>]
            ELSE IF choices[1].key \in {"message", "delta"}
            THEN ParseContent(choices[1].content)
            ELSE [ok |-> FALSE,
                  error |-> <<"Invalid", "response", "structure", "from", "agent">>]
    IN  IF inner.ok THEN [ok |-> TRUE, value |-> agent_response.object]
        ELSE [ok |-> FALSE, error |-> ParseFailedPrefix \o inner.error]

\* GenAIAgentService.get_recommendations, from the 2xx body to the parsed object;
\* the Exceptions raised here reach the last handler of the method, which wraps
\* them once more
UnexpectedPrefix == <<"Failed", "to", "get", "recommendations", ":">>

service_parse(response_data) ==
    LET choices == response_data.choices
        content ==
            IF choices # <<>> /\ choices[1].key = "message" THEN choices[1].content
            ELSE <<>>
    IN  IF choices = <<>>
        THEN [ok |-> FALSE,
              error |-> UnexpectedPrefix \o
                  <<"Invalid", "GenAI", "Agent", "response", "format", ":", "no", "choices">>]
        ELSE IF content = <<>>
        THEN [ok |-> FALSE,
              error |-> UnexpectedPrefix \o
                  <<"Empty", "response", "from", "GenAI", "Agent", "service">>]
        ELSE IF JsonLoads(Strip(content)).ok
        THEN [ok |-> TRUE, value |-> response_data.object]
        ELSE [ok |-> FALSE,
              error |-> UnexpectedPrefix \o
                  <<"Invalid", "JSON", "response", "from", "GenAI", "Agent", ":">> \o
                  JsonLoads(Strip(content)).error]

\* ------------------------------------------------ texts of the other failures
MissingPlantsText == <<"Missing", "'plants'", "field", "in", "GenAI", "Agent", "response">>
NoValidPlantsText == <<"No", "valid", "plants", "in", "GenAI", "Agent", "response">>
\* str(e) of pydantic's ValidationError for RecommendationResponse
ResponseInvalidText == <<"1", "validation", "error", "for", "RecommendationResponse">>
InvalidFormatPrefix == <<"Invalid", "response", "format", "from", "GenAI", "Agent", ":">>
\* str(e) of httpx.ConnectError
TransportText == <<"All", "connection", "attempts", "failed">>
\* str(e) of the JSONDecodeError of response.json() on a body that is not JSON
BodyNotJsonText == <<"Expecting", "value", ":", "line", "1", "column", "1">>

\* ------------------------------------------------------ failure classifiers
\* The if/elif chain of src/routes/recommendations.py
ServiceClassify(error_message) ==
    LET m == LowerText(error_message)
    IN  IF Contains(m, <<"not", "configured">>)
        THEN [status_code |-> 503, error |-> "llm_service_unavailable", retry_suggested |-> FALSE]
        ELSE IF Contains(m, <<"authentication">>) \/ Contains(m, <<"api", "key">>)
        THEN [status_code |-> 503, error |-> "authentication_failed", retry_suggested |-> FALSE]
        ELSE IF Contains(m, <<"timeout">>)
        THEN [status_code |-> 504, error |-> "request_timeout", retry_suggested |-> TRUE]
        ELSE IF Contains(m, <<"rate", "limit">>)
        THEN [status_code |-> 429, error |-> "rate_limit_exceeded", retry_suggested |-> TRUE]
        ELSE IF Contains(m, <<"invalid">>) /\ Contains(m, <<"json">>)
        THEN [status_code |-> 502, error |-> "llm_response_invalid", retry_suggested |-> TRUE]
        ELSE [status_code |-> 500, error |-> "llm_service_failed", retry_suggested |-> TRUE]

\* The backend's chain asking for "timeout" before the credentials
BackendClassifyTimeoutFirst(error_message) ==
    LET m == LowerText(error_message)
    IN  IF Contains(m, <<"not", "configured">>)
        THEN [status_code |-> 503, error |-> "genai_agent_unavailable", retry_suggested |-> FALSE]
        ELSE IF Contains(m, <<"timeout">>)
        THEN [status_code |-> 504, error |-> "request_timeout", retry_suggested |-> TRUE]
        ELSE IF Contains(m, <<"authentication">>) \/ Contains(m, <<"api", "key">>)
        THEN [status_code |-> 503, error |-> "authentication_failed", retry_suggested |-> FALSE]
        ELSE IF Contains(m, <<"rate", "limit">>)
        THEN [status_code |-> 429, error |-> "rate_limit_exceeded", retry_suggested |-> TRUE]
        ELSE IF Contains(m, <<"invalid">>) /\ Contains(m, <<"json">>)
        THEN [status_code |-> 502, error |-> "genai_response_invalid", retry_suggested |-> TRUE]
        ELSE [status_code |-> 500, error |-> "genai_agent_failed", retry_suggested |-> TRUE]

\* The if/elif chain of src/backend/routes/recommendations.py
BackendClassify(error_message) ==
    LET m == LowerText(error_message)
    IN  IF Contains(m, <<"not", "configured">>)
        THEN [status_code |-> 503, error |-> "genai_agent_unavailable", retry_suggested |-> FALSE]
        ELSE IF Contains(m, <<"authentication">>) \/ Contains(m, <<"api", "key">>)
        THEN [status_code |-> 503, error |-> "authentication_failed", retry_suggested |-> FALSE]
        ELSE IF Contains(m, <<"timeout">>)
        THEN [status_code |-> 504, error |-> "request_timeout", retry_suggested |-> TRUE]
        ELSE IF Contains(m, <<"rate", "limit">>)
        THEN [status_code |-> 429, error |-> "rate_limit_exceeded", retry_suggested |-> TRUE]
        ELSE IF Contains(m, <<"invalid">>) /\ Contains(m, <<"json">>)
        THEN [status_code |-> 502, error |-> "genai_response_invalid", retry_suggested |-> TRUE]
        ELSE [status_code |-> 500, error |-> "genai_agent_failed", retry_suggested |-> TRUE]

\* ------------------------------------------- what the upstream may answer
\* str(e.response.status_code)
StatusText(code) == ToString(code)

\* The exception GenAIAgentService.get_recommendations raises for a failed POST
service_post_error(o) ==
    CASE o.kind = "timeout" ->
            [type |-> "Exception",
             text |-> <<"Request", "timed", "out", "-", "please", "try", "again">>]
      [] o.kind = "status" /\ o.code = 401 ->
            [type |-> "Exception",
             text |-> <<"Authentication", "failed", "-", "check", "API", "key">>]
      [] o.kind = "status" /\ o.code = 429 ->
            [type |-> "Exception",
             text |-> <<"Rate", "limit", "exceeded", "-", "please", "try", "again", "later">>]
      [] o.kind = "status" /\ o.code \notin {401, 429} ->
            [type |-> "Exception",
             text |-> <<"GenAI", "Agent", "service", "error", ":", StatusText(o.code)>>]
      [] o.kind = "transport" ->
            [type |-> "Exception", text |-> UnexpectedPrefix \o TransportText]
      [] o.kind = "not_json" ->
            [type |-> "Exception", text |-> UnexpectedPrefix \o BodyNotJsonText]

\* The exception call_genai_agent lets out for a failed POST: HTTPStatusError and
\* TimeoutException become HTTPException, anything else passes unchanged
agent_post_error(o) ==
    CASE o.kind = "status" ->
            [type |-> "HTTPException", status_code |-> o.code,
             text |-> <<"GenAI", "Agent", "API", "error", ":", "body">>]
      [] o.kind = "timeout" ->
            [type |-> "HTTPException", status_code |-> 504,
             text |-> <<"Request", "to", "GenAI", "Agent", "timed", "out">>]
      [] o.kind = "transport" ->
            [type |-> "Exception", text |-> TransportText]
      [] o.kind = "not_json" ->
            [type |-> "Exception", text |-> BodyNotJsonText]

\* ------------------------------------------------------------------ inputs
GoodBody ==
    [location |-> <<"A", ",", "T">>, direction |-> "S", water |-> "Low",
     maintenance |-> "Low", garden_type |-> "Native Plants"]

\* Request bodies a client may post (each is well-formed JSON)
Bodies ==
    { GoodBody,
      [GoodBody EXCEPT !.direction = "NE", !.water = "High"],
      [location |-> GoodBody.location, water |-> "Low", maintenance |-> "Low",
       garden_type |-> "Native Plants"],
      [GoodBody EXCEPT !.direction = "INVALID"],
      [GoodBody EXCEPT !.location = <<>>],
      [GoodBody EXCEPT !.location = <<" ", " ", " ">>],
      [GoodBody EXCEPT !.location = <<"A", "u", "s">>],
      [invalid |-> "data"] }

\* Entries of a plants array, in the field names of either prompt
ServiceEntry ==
    [name |-> "Sage", scientific |-> "Salvia", sun |-> "Full Sun", water |-> "Low",
     maintenance |-> "Low", plant_now |-> "true",
     care_instructions |-> "Water weekly.", notes |-> "Native to Texas."]

AgentEntry ==
    [name |-> "Yucca", scientific_name |-> "Yucca rupicola", sun_requirements |-> "Partial Shade",
     water_needs |-> "Medium", maintenance_level |-> "High", plant_now |-> "yes",
     description |-> "Drought tolerant."]

RawPlants ==
    { ServiceEntry,
      AgentEntry,
      [AgentEntry EXCEPT !.sun_requirements = "Sunny"] }

\* Arrays of at most n entries
ArraysUpTo(n) == UNION {[1..k -> RawPlants] : k \in 0..n}

\* Arrays of one entry repeated, around the most a response may hold
Repeated ==
    {[i \in 1..k |-> e] : k \in (MaxItems - 1)..MaxPlants, e \in {ServiceEntry, AgentEntry}}

\* Arrays in which entries that pass and entries that fail are interleaved; the
\* first is five entries of which one fails the backend's validation
Interleaved ==
    { <<AgentEntry, ServiceEntry, [AgentEntry EXCEPT !.sun_requirements = "Sunny"],
        [ServiceEntry EXCEPT !.name = "Mint"], [name |-> "Fern"]>>,
      <<[AgentEntry EXCEPT !.sun_requirements = "Sunny"], AgentEntry, ServiceEntry>>,
      <<[name |-> "Fern"], [AgentEntry EXCEPT !.sun_requirements = "Sunny"]>> }

PlantArrays == ArraysUpTo(MaxMixed) \cup Repeated \cup Interleaved

NoObject == [none |-> TRUE]

\* JSON objects the completion may hold
Objects ==
    {[plants |-> a] : a \in PlantArrays}
    \cup {[plants |-> <<AgentEntry, ServiceEntry>>, location |-> "Austin, TX",
           season |-> "Early spring"],
          [plants |-> <<AgentEntry, ServiceEntry>>, season |-> "Fall"],
          [location |-> "Austin, TX", season |-> "Early spring"]}

FewObjects ==
    {[plants |-> <<AgentEntry, ServiceEntry>>],
     [plants |-> <<[name |-> "Fern"], [AgentEntry EXCEPT !.sun_requirements = "Sunny"]>>],
     [location |-> "Austin, TX", season |-> "Early spring"]}

\* Completions whose JSON object some extraction reaches
Extractable ==
    { <<"FENCE_JSON", "NL", "OBJ", "NL", "FENCE">>,
      <<"FENCE", "NL", "OBJ", "NL", "FENCE">>,
      <<"txt", "OBJ", "txt">>,
      <<"NL", "OBJ", "NL">> }

\* Completions no extraction parses
Unparseable ==
    { <<"txt">>, <<"BAD">>, <<"CTL">>, <<"OBJ", "txt", "OBJ">>,
      <<"FENCE_JSON", "NL", "BAD", "NL", "FENCE", "txt", "OBJ">>,
      <<"FENCE_JSON", "OBJ">> }

\* Decoded 2xx bodies
AgentResponses ==
    {[choices |-> <<>>, object |-> NoObject],
     [choices |-> <<[key |-> "other", content |-> <<>>]>>, object |-> NoObject],
     [choices |-> <<[key |-> "message", content |-> <<>>]>>, object |-> NoObject]}
    \cup {[choices |-> <<[key |-> "message", content |-> <<"OBJ">>]>>, object |-> o] :
              o \in Objects}
    \cup {[choices |-> <<[key |-> "delta", content |-> <<"OBJ">>]>>, object |-> o] :
              o \in FewObjects}
    \cup {[choices |-> <<[key |-> "message", content |-> c]>>, object |-> o] :
              c \in Extractable, o \in FewObjects}
    \cup {[choices |-> <<[key |-> "message", content |-> c]>>, object |-> NoObject] :
              c \in Unparseable}

UpstreamStatuses == {401, 403, 404, 429, 500}

\* Outcomes of the one POST to the upstream endpoint
Outcomes ==
    {[kind |-> "status", code |-> c] : c \in UpstreamStatuses}
    \cup {[kind |-> "timeout"], [kind |-> "transport"], [kind |-> "not_json"]}
    \cup {[kind |-> "ok", data |-> r] : r \in AgentResponses}

Months == 1..12

\* ------------------------------------------------------------------- state
VARIABLES
    ep,               \* the entry point this server runs: "service" or "backend"
    api_key,          \* GENAI_API_KEY / DO_AGENT_API_KEY
    endpoint,         \* GENAI_ENDPOINT / DO_AGENT_BASE_URL
    enabled,          \* llm_service.enabled, set once by GenAIAgentService.__init__
    reqNo,            \* number of the request being handled
    pc,               \* where the handling of the request stands
    body,             \* the posted body
    log_data,         \* the handler's log_data dictionary
    ctx,              \* the derived context (season, sun level)
    prompt,           \* whether the prompt has been built
    posts,            \* POSTs sent to the upstream endpoint for this request
    agent_response,   \* the decoded 2xx body
    recommendations,  \* the parsed JSON object
    response,         \* the RecommendationResponse built
    exc,              \* the exception travelling up the handler
    outcome,          \* history: how the POST to the upstream ended
    cause,            \* history: why the request failed
    logCalls,         \* calls of log_request made for this request
    log,              \* every log_data passed to log_request, in order
    http,             \* the HTTP response emitted for this request
    logOutcome,       \* history: what the call of log_request met and did
    health,           \* the answer to the last health probe since the last POST,
                      \* and the status of the POST answered before it
    ls,               \* LoggingService.log_request: the call, the session, the store
    cd,               \* one call of one function: arguments and result
    cc                \* requests handled concurrently: their frames, the clock,
                      \* the log and the object store

vars ==
    <<ep, api_key, endpoint, enabled, reqNo, pc, body, log_data, ctx, prompt, posts,
      agent_response, recommendations, response, exc, outcome, cause, logCalls, log,
      http, logOutcome, health, ls, cd, cc>>

None == [none |-> TRUE]

\* The per-request state before a body arrives
Fresh ==
    /\ log_data = None
    /\ ctx = None
    /\ prompt = FALSE
    /\ posts = 0
    /\ agent_response = None
    /\ recommendations = None
    /\ response = None
    /\ exc = None
    /\ outcome = None
    /\ cause = "none"
    /\ logCalls = 0
    /\ http = None
    /\ logOutcome = None

Init ==
    /\ ep \in {"service", "backend"}
    /\ api_key \in EnvValues
    /\ endpoint \in EnvValues
    /\ enabled = is_configured(api_key, endpoint)
    /\ reqNo = 0
    /\ pc = "idle"
    /\ body = None
    /\ log = <<>>
    /\ Fresh
    /\ health = None
    /\ ls = None
    /\ cd = None
    /\ cc = None

config == <<ep, api_key, endpoint, enabled>>

\* What the handling of a POST leaves alone
aside == <<health, ls, cd, cc>>

\* The condition that lets a POST through to the upstream call: llm_service.enabled
\* (validate_llm_service, get_recommendations) or the guard of call_genai_agent
GateOpen == IF ep = "service" THEN enabled ELSE agent_configured(api_key, endpoint)

\* Requests one run handles
RequestBound == IF GateOpen THEN MaxRequests ELSE MaxUnconfigured

\* A client posts a body; the previous request, if any, has been answered
Submit ==
    /\ pc \in {"idle", "responded"}
    /\ reqNo < RequestBound
    /\ reqNo' = reqNo + 1
    /\ body' \in Bodies
    /\ pc' = "received"
    /\ log_data' = None /\ ctx' = None /\ prompt' = FALSE /\ posts' = 0
    /\ agent_response' = None /\ recommendations' = None /\ response' = None
    /\ exc' = None /\ outcome' = None /\ cause' = "none" /\ logCalls' = 0 /\ http' = None
    /\ logOutcome' = None /\ health' = None
    /\ UNCHANGED <<config, log, ls, cd, cc>>

\* The handler's first statements: log_data with the five inputs
NewLogData(b) ==
    [location |-> b.location, direction |-> b.direction, water |-> b.water,
     maintenance |-> b.maintenance, garden_type |-> b.garden_type,
     success |-> FALSE, error |-> None, plant_count |-> 0]

\* The detail of validate_llm_service's HTTPException
UnavailableDetail ==
    [kind |-> "fields", error |-> "llm_service_unavailable",
     message |-> <<"LLM", "service", "is", "not", "configured", ".">>,
     retry_suggested |-> FALSE]

\* FastAPI runs the route of src/routes/recommendations.py: the dependency
\* validate_llm_service is solved first and its HTTPException ends the request;
\* then the body is validated against RecommendationRequest (422 on failure);
\* then the handler starts
ServiceDispatch ==
    /\ ep = "service"
    /\ pc = "received"
    /\ IF ~enabled
       THEN /\ http' = [status |-> 503, detail |-> UnavailableDetail]
            /\ cause' = "not_configured"
            /\ pc' = "responded"
            /\ UNCHANGED log_data
       ELSE IF ~ValidRequest(body)
       THEN /\ http' = [status |-> 422, detail |-> [kind |-> "validation"]]
            /\ cause' = "schema"
            /\ pc' = "responded"
            /\ UNCHANGED log_data
       ELSE /\ log_data' = NewLogData(body)
            /\ pc' = "handler"
            /\ UNCHANGED <<http, cause>>
    /\ UNCHANGED <<config, aside, logOutcome, reqNo, body, ctx, prompt, posts, agent_response,
                   recommendations, response, exc, logCalls, log, outcome>>

\* FastAPI runs the route of src/backend/routes/recommendations.py: the body is
\* validated against RecommendationRequest (422 on failure); then the handler starts
BackendDispatch ==
    /\ ep = "backend"
    /\ pc = "received"
    /\ IF ~ValidRequest(body)
       THEN /\ http' = [status |-> 422, detail |-> [kind |-> "validation"]]
            /\ cause' = "schema"
            /\ pc' = "responded"
            /\ UNCHANGED log_data
       ELSE /\ log_data' = NewLogData(body)
            /\ pc' = "handler"
            /\ UNCHANGED <<http, cause>>
    /\ UNCHANGED <<config, aside, logOutcome, reqNo, body, ctx, prompt, posts, agent_response,
                   recommendations, response, exc, logCalls, log, outcome>>

\* Backend step 1: zone, season (of the month it is) and sun level
BackendDeriveContext ==
    /\ ep = "backend"
    /\ pc = "handler"
    /\ \E month \in Months :
           LET zone == get_hardiness_zone(body.location)
           IN  ctx' = [zone |-> zone,
                       season |-> get_current_season(zone, month),
                       sun_level |-> map_direction_to_sun(body.direction)]
    /\ pc' = "derived"
    /\ UNCHANGED <<config, aside, logOutcome, reqNo, body, log_data, prompt, posts, agent_response,
                   recommendations, response, exc, cause, logCalls, log, http, outcome>>

\* Backend step 2: construct_agent_prompt
BackendBuildPrompt ==
    /\ ep = "backend"
    /\ pc = "derived"
    /\ prompt' = TRUE
    /\ pc' = "prompted"
    /\ UNCHANGED <<config, aside, logOutcome, reqNo, body, log_data, ctx, posts, agent_response,
                   recommendations, response, exc, cause, logCalls, log, http, outcome>>

\* Backend step 3, call_genai_agent up to the await: the configuration guard, then
\* the POST is sent
BackendCallAgent ==
    /\ ep = "backend"
    /\ pc = "prompted"
    /\ IF ~agent_configured(api_key, endpoint)
       THEN /\ exc' = [type |-> "HTTPException", status_code |-> 503,
                       text |-> <<"GenAI", "Agent", "not", "configured", ".">>]
            /\ cause' = "not_configured"
            /\ pc' = "raised"
            /\ UNCHANGED posts
       ELSE /\ posts' = posts + 1
            /\ pc' = "awaiting"
            /\ UNCHANGED <<exc, cause>>
    /\ UNCHANGED <<config, aside, logOutcome, reqNo, body, log_data, ctx, prompt, agent_response,
                   recommendations, response, logCalls, log, http, outcome>>

\* GenAIAgentService.get_recommendations up to the await: the enabled guard,
\* _create_prompt (season and sun exposure, then the prompt), then the POST is sent
ServiceCallAgent ==
    /\ ep = "service"
    /\ pc = "handler"
    /\ IF ~enabled
       THEN /\ exc' = [type |-> "Exception",
                       text |-> <<"GenAI", "Agent", "service", "not", "configured">>]
            /\ cause' = "not_configured"
            /\ pc' = "raised"
            /\ UNCHANGED <<ctx, prompt, posts>>
       ELSE /\ \E month \in Months :
                   ctx' = [season |-> service_get_current_season(month),
                           sun_level |-> get_sun_exposure(body.direction)]
            /\ prompt' = TRUE
            /\ posts' = posts + 1
            /\ pc' = "awaiting"
            /\ UNCHANGED <<exc, cause>>
    /\ UNCHANGED <<config, aside, logOutcome, reqNo, body, log_data, agent_response,
                   recommendations, response, logCalls, log, http, outcome>>

\* History: the cause of a failed POST
PostCause(o) ==
    CASE o.kind = "status" -> "upstream_status"
      [] o.kind = "timeout" -> "timeout"
      [] o.kind = "transport" -> "transport"
      [] o.kind = "not_json" -> "not_json"

\* The backend's call with the POST sent again after a timeout
BackendReplyRetry ==
    /\ ep = "backend"
    /\ pc = "awaiting"
    /\ \E o \in Outcomes :
           IF o.kind = "ok"
           THEN /\ agent_response' = o.data
                /\ outcome' = [kind |-> "ok"]
                /\ pc' = "parsing"
                /\ UNCHANGED <<exc, cause>>
           ELSE IF o.kind = "timeout"
           THEN /\ outcome' = o
                /\ pc' = "prompted"
                /\ UNCHANGED <<agent_response, exc, cause>>
           ELSE /\ exc' = agent_post_error(o)
                /\ outcome' = o
                /\ cause' = PostCause(o)
                /\ pc' = "raised"
                /\ UNCHANGED agent_response
    /\ UNCHANGED <<config, aside, logOutcome, reqNo, body, log_data, ctx, prompt, posts,
                   recommendations, response, logCalls, log, http>>

\* The awaited POST completes in the backend's call_genai_agent
BackendReply ==
    /\ ep = "backend"
    /\ pc = "awaiting"
    /\ \E o \in Outcomes :
           IF o.kind = "ok"
           THEN /\ agent_response' = o.data
                /\ outcome' = [kind |-> "ok"]
                /\ pc' = "parsing"
                /\ UNCHANGED <<exc, cause>>
           ELSE /\ exc' = agent_post_error(o)
                /\ outcome' = o
                /\ cause' = PostCause(o)
                /\ pc' = "raised"
                /\ UNCHANGED agent_response
    /\ UNCHANGED <<config, aside, logOutcome, reqNo, body, log_data, ctx, prompt, posts,
                   recommendations, response, logCalls, log, http>>

\* The awaited POST completes in GenAIAgentService.get_recommendations
ServiceReply ==
    /\ ep = "service"
    /\ pc = "awaiting"
    /\ \E o \in Outcomes :
           IF o.kind = "ok"
           THEN /\ agent_response' = o.data
                /\ outcome' = [kind |-> "ok"]
                /\ pc' = "parsing"
                /\ UNCHANGED <<exc, cause>>
           ELSE /\ exc' = service_post_error(o)
                /\ outcome' = o
                /\ cause' = PostCause(o)
                /\ pc' = "raised"
                /\ UNCHANGED agent_response
    /\ UNCHANGED <<config, aside, logOutcome, reqNo, body, log_data, ctx, prompt, posts,
                   recommendations, response, logCalls, log, http>>

\* log_request(log_data) is called: the record it is handed
log_request(l, req, data) == Append(l, [req |-> req, data |-> data])

\* What one call of log_request meets: json.dumps of the record, the value of
\* spaces_client.enabled, and how put_object ends
LogEnvs ==
    {[dumps |-> "error", enabled |-> TRUE, put |-> "stored"],
     [dumps |-> "ok", enabled |-> FALSE, put |-> "stored"],
     [dumps |-> "ok", enabled |-> TRUE, put |-> "stored"],
     [dumps |-> "ok", enabled |-> TRUE, put |-> "error"]}

\* DigitalOceanSpacesClient.backup_request_log: one put_object; a ClientError and
\* any other exception ("error") both end in return None
backup_request_log(env) ==
    IF ~env.enabled THEN [raised |-> FALSE, stored |-> FALSE]
    ELSE IF env.put = "stored" THEN [raised |-> FALSE, stored |-> TRUE]
    ELSE [raised |-> FALSE, stored |-> FALSE]

\* The statements inside the outer try of log_request: the log line, then the
\* backup inside its own try
log_request_body(env) ==
    IF env.dumps = "error" THEN [raised |-> TRUE, line |-> FALSE, stored |-> FALSE]
    ELSE IF env.enabled
    THEN LET r == backup_request_log(env)
         IN  [raised |-> FALSE, line |-> TRUE, stored |-> ~r.raised /\ r.stored]
    ELSE [raised |-> FALSE, line |-> TRUE, stored |-> FALSE]

\* log_request without its outer handler: what the body raises is raised
log_request_unguarded(env) == log_request_body(env)

\* log_request as a whole: its outer handler logs what the body raised
log_request_effect(env) ==
    LET r == log_request_body(env)
    IN  IF r.raised THEN [r EXCEPT !.raised = FALSE] ELSE r

\* str(e) of what json.dumps raises
DumpsErrorText == <<"Circular", "reference", "detected">>

\* Steps 5 and 6 keeping the first MaxItems validated plants
backend_build_truncating(recs, request, season) ==
    IF "plants" \notin DOMAIN recs
    THEN [ok |-> FALSE, error |-> MissingPlantsText, cause |-> "missing_plants"]
    ELSE LET all_plants == BackendValidatePlants(recs.plants)
             validated_plants ==
                 IF Len(all_plants) > MaxItems THEN SubSeq(all_plants, 1, MaxItems)
                 ELSE all_plants
             out_season == Get(recs, "season", season)
         IN  IF validated_plants = <<>>
             THEN [ok |-> FALSE, error |-> NoValidPlantsText, cause |-> "no_valid_plants"]
             ELSE IF ~ValidResponse(out_season, validated_plants)
             THEN [ok |-> FALSE, error |-> ResponseInvalidText, cause |-> "response_invalid"]
             ELSE [ok |-> TRUE,
                   value |-> [location |-> Get(recs, "location", request.location),
                              season |-> out_season,
                              plants |-> validated_plants,
                              generated_by |-> "genai_agent"]]

\* Steps 5 and 6 with the plants check left out: a missing array is an empty one
backend_build_plants_optional(recs, request, season) ==
    LET validated_plants == BackendValidatePlants(Get(recs, "plants", <<>>))
        out_season == Get(recs, "season", season)
    IN  IF validated_plants = <<>>
        THEN [ok |-> FALSE, error |-> NoValidPlantsText, cause |-> "no_valid_plants"]
        ELSE IF ~ValidResponse(out_season, validated_plants)
        THEN [ok |-> FALSE, error |-> ResponseInvalidText, cause |-> "response_invalid"]
        ELSE [ok |-> TRUE,
              value |-> [location |-> Get(recs, "location", request.location),
                         season |-> out_season,
                         plants |-> validated_plants,
                         generated_by |-> "genai_agent"]]

\* Steps 5 and 6 of the backend handler on a parsed object: the plants check, the
\* validation loop and the RecommendationResponse
backend_build(recs, request, season) ==
    IF "plants" \notin DOMAIN recs
    THEN [ok |-> FALSE, error |-> MissingPlantsText, cause |-> "missing_plants"]
    ELSE LET validated_plants == BackendValidatePlants(recs.plants)
             out_season == Get(recs, "season", season)
         IN  IF validated_plants = <<>>
             THEN [ok |-> FALSE, error |-> NoValidPlantsText, cause |-> "no_valid_plants"]
             ELSE IF ~ValidResponse(out_season, validated_plants)
             THEN [ok |-> FALSE, error |-> ResponseInvalidText, cause |-> "response_invalid"]
             ELSE [ok |-> TRUE,
                   value |-> [location |-> Get(recs, "location", request.location),
                              season |-> out_season,
                              plants |-> validated_plants,
                              generated_by |-> "genai_agent"]]

\* The validation block of GenAIAgentService.get_recommendations; what it raises
\* is wrapped by its own handler and again by the method's last handler
service_build(recs, request, season) ==
    IF "plants" \notin DOMAIN recs
    THEN [ok |-> FALSE, cause |-> "missing_plants",
          error |-> UnexpectedPrefix \o InvalidFormatPrefix \o MissingPlantsText]
    ELSE LET validated_plants == ServiceValidatePlants(recs.plants)
             out_season == Get(recs, "season", season)
         IN  IF validated_plants = <<>>
             THEN [ok |-> FALSE, cause |-> "no_valid_plants",
                   error |-> UnexpectedPrefix \o InvalidFormatPrefix \o NoValidPlantsText]
             ELSE IF ~ValidResponse(out_season, validated_plants)
             THEN [ok |-> FALSE, cause |-> "response_invalid",
                   error |-> UnexpectedPrefix \o InvalidFormatPrefix \o ResponseInvalidText]
             ELSE [ok |-> TRUE,
                   value |-> [location |-> Get(recs, "location", request.location),
                              season |-> out_season,
                              plants |-> validated_plants,
                              generated_by |-> "genai_agent"]]

\* Backend step 4: parse_agent_response
BackendParse ==
    /\ ep = "backend"
    /\ pc = "parsing"
    /\ LET r == parse_agent_response(agent_response)
       IN  IF r.ok
           THEN /\ recommendations' = r.value
                /\ pc' = "parsed"
                /\ UNCHANGED <<exc, cause>>
           ELSE /\ exc' = [type |-> "Exception", text |-> r.error]
                /\ cause' = "unparseable"
                /\ pc' = "raised"
                /\ UNCHANGED recommendations
    /\ UNCHANGED <<config, aside, logOutcome, reqNo, body, log_data, ctx, prompt, posts, agent_response,
                   response, logCalls, log, http, outcome>>

\* The service extracts and parses the completion
ServiceParse ==
    /\ ep = "service"
    /\ pc = "parsing"
    /\ LET r == service_parse(agent_response)
       IN  IF r.ok
           THEN /\ recommendations' = r.value
                /\ pc' = "parsed"
                /\ UNCHANGED <<exc, cause>>
           ELSE /\ exc' = [type |-> "Exception", text |-> r.error]
                /\ cause' = "unparseable"
                /\ pc' = "raised"
                /\ UNCHANGED recommendations
    /\ UNCHANGED <<config, aside, logOutcome, reqNo, body, log_data, ctx, prompt, posts, agent_response,
                   response, logCalls, log, http, outcome>>

\* Backend steps 5 and 6
BackendValidate ==
    /\ ep = "backend"
    /\ pc = "parsed"
    /\ LET r == backend_build(recommendations, body, ctx.season)
       IN  IF r.ok
           THEN /\ response' = r.value
                /\ pc' = "built"
                /\ UNCHANGED <<exc, cause>>
           ELSE /\ exc' = [type |-> "Exception", text |-> r.error]
                /\ cause' = r.cause
                /\ pc' = "raised"
                /\ UNCHANGED response
    /\ UNCHANGED <<config, aside, logOutcome, reqNo, body, log_data, ctx, prompt, posts, agent_response,
                   recommendations, logCalls, log, http, outcome>>

\* The service validates the plants and returns the response to the handler
ServiceValidate ==
    /\ ep = "service"
    /\ pc = "parsed"
    /\ LET r == service_build(recommendations, body, ctx.season)
       IN  IF r.ok
           THEN /\ response' = r.value
                /\ pc' = "built"
                /\ UNCHANGED <<exc, cause>>
           ELSE /\ exc' = [type |-> "Exception", text |-> r.error]
                /\ cause' = r.cause
                /\ pc' = "raised"
                /\ UNCHANGED response
    /\ UNCHANGED <<config, aside, logOutcome, reqNo, body, log_data, ctx, prompt, posts, agent_response,
                   recommendations, logCalls, log, http, outcome>>

\* The success path with plant_count left out of log_data.update(...)
LogSuccessNoCount ==
    /\ pc = "built"
    /\ log_data' = [log_data EXCEPT !.success = TRUE]
    /\ log' = log_request(log, reqNo, log_data')
    /\ logCalls' = logCalls + 1
    /\ \E env \in LogEnvs :
           LET r == log_request_effect(env)
           IN  /\ logOutcome' = [env |-> env, line |-> r.line, stored |-> r.stored]
               /\ pc' = "logged"
    /\ UNCHANGED <<config, aside, reqNo, body, ctx, prompt, posts, agent_response,
                   recommendations, response, exc, cause, http, outcome>>

\* The handler's success path: log_data.update(...) and await log_request(log_data)
LogSuccess ==
    /\ pc = "built"
    /\ log_data' = [log_data EXCEPT !.success = TRUE, !.plant_count = Len(response.plants)]
    /\ log' = log_request(log, reqNo, log_data')
    /\ logCalls' = logCalls + 1
    /\ \E env \in LogEnvs :
           LET r == log_request_effect(env)
           IN  /\ logOutcome' = [env |-> env, line |-> r.line, stored |-> r.stored]
               /\ IF r.raised
                  THEN \* the call is inside the handler's try
                       /\ exc' = [type |-> "Exception", text |-> DumpsErrorText]
                       /\ cause' = "log_write"
                       /\ pc' = "raised"
                  ELSE /\ pc' = "logged"
                       /\ UNCHANGED <<exc, cause>>
    /\ UNCHANGED <<config, aside, reqNo, body, ctx, prompt, posts, agent_response,
                   recommendations, response, http, outcome>>

\* return response: HTTP 200 with the RecommendationResponse
ReturnResponse ==
    /\ pc = "logged"
    /\ http' = [status |-> 200, body |-> response]
    /\ pc' = "responded"
    /\ UNCHANGED <<config, aside, logOutcome, reqNo, body, log_data, ctx, prompt, posts, agent_response,
                   recommendations, response, exc, cause, logCalls, log, outcome>>

\* except HTTPException: raise (backend only). FastAPI answers with the
\* exception's status and {"detail": <its detail string>}
BackendReraise ==
    /\ ep = "backend"
    /\ pc = "raised"
    /\ exc.type = "HTTPException"
    /\ http' = [status |-> exc.status_code, detail |-> [kind |-> "text", text |-> exc.text]]
    /\ pc' = "responded"
    /\ UNCHANGED <<config, aside, logOutcome, reqNo, body, log_data, ctx, prompt, posts, agent_response,
                   recommendations, response, exc, cause, logCalls, log, outcome>>

\* except Exception as e, first half: log_data.update(...) and await log_request
LogFailure ==
    /\ pc = "raised"
    /\ exc.type = "Exception"
    /\ log_data' = [log_data EXCEPT !.success = FALSE, !.error = [text |-> exc.text]]
    /\ log' = log_request(log, reqNo, log_data')
    /\ logCalls' = logCalls + 1
    /\ \E env \in LogEnvs :
           LET r == log_request_effect(env)
           IN  /\ logOutcome' = [env |-> env, line |-> r.line, stored |-> r.stored]
               /\ IF r.raised
                  THEN \* the call is inside the except clause: what it raises leaves
                       \* the handler and the server answers 500 in plain text
                       /\ http' = [status |-> 500,
                                   detail |-> [kind |-> "plain",
                                               text |-> <<"Internal", "Server", "Error">>]]
                       /\ pc' = "responded"
                  ELSE /\ pc' = "failed"
                       /\ UNCHANGED http
    /\ UNCHANGED <<config, aside, reqNo, body, ctx, prompt, posts, agent_response,
                   recommendations, response, exc, cause, outcome>>

\* The handler's classification of str(e), by entry point
Classify(entry, error_message) ==
    IF entry = "service" THEN ServiceClassify(error_message)
    ELSE BackendClassify(error_message)

\* except Exception as e, second half: classify, build the ErrorResponse, raise
\* HTTPException(status_code, detail=error_response.dict())
RespondError ==
    /\ pc = "failed"
    /\ LET c == Classify(ep, exc.text)
       IN  http' = [status |-> c.status_code,
                    detail |-> [kind |-> "fields", error |-> c.error,
                                message |-> <<"Unable", "to", "generate", "plant",
                                              "recommendations", ":">> \o exc.text,
                                retry_suggested |-> c.retry_suggested]]
    /\ pc' = "responded"
    /\ UNCHANGED <<config, aside, logOutcome, reqNo, body, log_data, ctx, prompt, posts, agent_response,
                   recommendations, response, exc, cause, logCalls, log, outcome>>

\* GET /health
health_check == [status |-> "healthy"]

\* The health answer with the flag taken from the key alone
recommendations_health_key_only(entry, llm_enabled, key, base_url) ==
    IF entry = "service"
    THEN [service |-> "recommendations", status |-> "healthy",
          llm_service_configured |-> Truthy(key)]
    ELSE [service |-> "recommendations", status |-> "healthy",
          genai_agent_configured |-> Truthy(key)]

\* GET /api/recommendations/health, by entry point (the timestamp is left out)
recommendations_health_check(entry, llm_enabled, key, base_url) ==
    IF entry = "service"
    THEN [service |-> "recommendations", status |-> "healthy",
          llm_service_configured |-> llm_enabled]
    ELSE [service |-> "recommendations", status |-> "healthy",
          genai_agent_configured |-> (Truthy(key) /\ Truthy(base_url))]

\* The answered POST, if any, is over: no request is being handled
Forgotten ==
    /\ pc' = "idle"
    /\ body' = None
    /\ log_data' = None /\ ctx' = None /\ prompt' = FALSE /\ posts' = 0
    /\ agent_response' = None /\ recommendations' = None /\ response' = None
    /\ exc' = None /\ outcome' = None /\ cause' = "none" /\ logCalls' = 0 /\ http' = None
    /\ logOutcome' = None

\* History: the POST answered before the probe (whether its body was valid, and
\* its status)
LastPost ==
    IF pc = "responded" THEN [valid |-> ValidRequest(body), status |-> http.status]
    ELSE IF health # None THEN health.after
    ELSE None

\* A client probes GET /health between two POSTs
Health ==
    /\ pc \in {"idle", "responded"}
    /\ health' = [path |-> "/health", status_code |-> 200, json |-> health_check,
                  after |-> LastPost]
    /\ Forgotten
    /\ UNCHANGED <<config, reqNo, log, ls, cd, cc>>

\* A client probes GET /api/recommendations/health between two POSTs
RecommendationsHealth ==
    /\ pc \in {"idle", "responded"}
    /\ health' = [path |-> "/api/recommendations/health", status_code |-> 200,
                  json |-> recommendations_health_check(ep, enabled, api_key, endpoint),
                  after |-> LastPost]
    /\ Forgotten
    /\ UNCHANGED <<config, reqNo, log, ls, cd, cc>>

Next ==
    \/ Submit
    \/ Health
    \/ RecommendationsHealth
    \/ ServiceDispatch
    \/ BackendDispatch
    \/ BackendDeriveContext
    \/ BackendBuildPrompt
    \/ BackendCallAgent
    \/ ServiceCallAgent
    \/ BackendReply
    \/ ServiceReply
    \/ BackendParse
    \/ ServiceParse
    \/ BackendValidate
    \/ ServiceValidate
    \/ LogSuccess
    \/ ReturnResponse
    \/ BackendReraise
    \/ LogFailure
    \/ RespondError

Spec == Init /\ [][Next]_vars

\* ------------------------------------------ the context deriver on its own
\* The variables of the handling of POSTs
handling ==
    <<config, reqNo, pc, body, log_data, ctx, prompt, posts, agent_response,
      recommendations, response, exc, outcome, cause, logCalls, log, http,
      logOutcome, health>>

\* A server that has received nothing
Quiet ==
    /\ ep = "backend"
    /\ api_key = "set"
    /\ endpoint = "set"
    /\ enabled = is_configured(api_key, endpoint)
    /\ reqNo = 0
    /\ pc = "idle"
    /\ body = None
    /\ log = <<>>
    /\ Fresh
    /\ health = None

\* Locations the zone lookup is given
DenverCO == <<"D", "e", "n", "v", "e", "r", ",", " ", "C", "O">>
UnknownCityZZ == <<"U", "n", "k", "n", "o", "w", "n", " ", "C", "i", "t", "y", ",", " ", "Z", "Z">>
Locations ==
    { DenverCO,
      UnknownCityZZ,
      <<"N", "e", "w", " ", "Y", "o", "r", "k", ",", " ", "B", "o", "s", "t", "o", "n">>,
      <<"D", "a", "l", "l", "a", "s", " ", "t", "o", " ", "D", "e", "n", "v", "e", "r">>,
      <<"A", "U", "S", "T", "I", "N">>,
      <<"P", "o", "r", "t", "l", "a", "n", "d", ",", " ", "C", "o", "l", "o", "r", "a", "d", "o">>,
      <<"M", "i", "a", "m", "i", " ", "B", "e", "a", "c", "h">>,
      <<"N", "e", "w", "y", "o", "r", "k">>,
      GoodBody.location,
      <<>> }

\* The zones of the table and the default
Zones == {zone_map[i].zone : i \in 1..Len(zone_map)} \cup {DefaultZone}

\* Direction arguments: the eight codes, codes in other cases, other strings
Directions == DirectionEnum \cup {"n", "sw", "Ne", "x", "X", "INVALID", ""}

\* The result of a call that has not returned
NotYet == "?"

\* One call of one function of the context deriver
Calls ==
    {[fn |-> "get_hardiness_zone", location |-> l, result |-> NotYet] : l \in Locations}
    \cup {[fn |-> "get_current_season", zone |-> z, month |-> m, result |-> NotYet] :
              z \in Zones, m \in Months}
    \cup {[fn |-> "_get_current_season", month |-> m, result |-> NotYet] : m \in Months}
    \cup {[fn |-> "map_direction_to_sun", direction |-> d, result |-> NotYet] :
              d \in Directions}
    \cup {[fn |-> "_get_sun_exposure", direction |-> d, result |-> NotYet] :
              d \in Directions}

ContextInit ==
    /\ Quiet
    /\ ls = None
    /\ cc = None
    /\ cd \in Calls

GetHardinessZone ==
    /\ cd.fn = "get_hardiness_zone"
    /\ cd.result = NotYet
    /\ cd' = [cd EXCEPT !.result = get_hardiness_zone(cd.location)]
    /\ UNCHANGED <<handling, ls, cc>>

GetCurrentSeason ==
    /\ cd.fn = "get_current_season"
    /\ cd.result = NotYet
    /\ cd' = [cd EXCEPT !.result = get_current_season(cd.zone, cd.month)]
    /\ UNCHANGED <<handling, ls, cc>>

ServiceGetCurrentSeason ==
    /\ cd.fn = "_get_current_season"
    /\ cd.result = NotYet
    /\ cd' = [cd EXCEPT !.result = service_get_current_season(cd.month)]
    /\ UNCHANGED <<handling, ls, cc>>

MapDirectionToSun ==
    /\ cd.fn = "map_direction_to_sun"
    /\ cd.result = NotYet
    /\ cd' = [cd EXCEPT !.result = map_direction_to_sun(cd.direction)]
    /\ UNCHANGED <<handling, ls, cc>>

GetSunExposure ==
    /\ cd.fn = "_get_sun_exposure"
    /\ cd.result = NotYet
    /\ cd' = [cd EXCEPT !.result = get_sun_exposure(cd.direction)]
    /\ UNCHANGED <<handling, ls, cc>>

ContextNext ==
    \/ GetHardinessZone
    \/ GetCurrentSeason
    \/ ServiceGetCurrentSeason
    \/ MapDirectionToSun
    \/ GetSunExposure

ContextSpec == ContextInit /\ [][ContextNext]_vars

\* -------------------------------------------- LoggingService on its own
\* LoggingService.log_request(db, request, response, error_message): the caller
\* holds one AsyncSession; the awaits (commit, refresh, the backup, rollback) are
\* the steps. Each database call and the upload may succeed or raise.
DbOutcomes == {"ok", "error"}

\* Responses handed to log_request: none (a failure is logged) or one with plants
LsResponses ==
    { None,
      [season |-> "Spring Planting Season", plants |-> <<Plant(ServiceEntry)>>],
      [season |-> "Fall Planting Season",
       plants |-> <<Plant(ServiceEntry), Plant(MapPlant(AgentEntry))>>] }

\* Requests handed to log_request
LsRequests == {b \in Bodies : ValidRequest(b)}

\* No call in progress, an empty table, an empty bucket
LsStart ==
    [pc |-> "idle", calls |-> 0, request |-> None, response |-> None, entry |-> None,
     session |-> "clean", rows |-> <<>>, committed |-> FALSE, uploads |-> 0,
     objects |-> {}, result |-> "none"]

LogServiceInit ==
    /\ Quiet
    /\ cd = None
    /\ cc = None
    /\ ls = LsStart

\* The RequestLog built from the arguments (lines 44-60)
NewRequestLog(request, resp) ==
    [id |-> 0,
     location |-> request.location,
     direction |-> request.direction,
     success |-> resp # None,
     plant_count |-> IF resp # None THEN Len(resp.plants) ELSE 0,
     has_error_message |-> resp = None,
     spaces_backup_key |-> 0,
     spaces_backup_timestamp |-> 0]

\* A caller invokes log_request
LsCall ==
    /\ ls.pc \in {"idle", "done", "raised"}
    /\ ls.calls < MaxWrites
    /\ \E request \in LsRequests, resp \in LsResponses :
           ls' = [ls EXCEPT !.pc = "build", !.calls = @ + 1, !.request = request,
                            !.response = resp, !.entry = None,
                            !.committed = FALSE, !.uploads = 0, !.result = "none"]
    /\ UNCHANGED <<handling, cd, cc>>

\* log_entry = RequestLog(...) and the response fields
LsBuild ==
    /\ ls.pc = "build"
    /\ \E o \in DbOutcomes :
           IF o = "ok"
           THEN ls' = [ls EXCEPT !.entry = NewRequestLog(ls.request, ls.response),
                                 !.pc = "add"]
           ELSE ls' = [ls EXCEPT !.pc = "except"]
    /\ UNCHANGED <<handling, cd, cc>>

\* db.add(log_entry)
LsAdd ==
    /\ ls.pc = "add"
    /\ \E o \in DbOutcomes :
           IF o = "ok"
           THEN ls' = [ls EXCEPT !.session = "pending", !.pc = "commit"]
           ELSE ls' = [ls EXCEPT !.pc = "except"]
    /\ UNCHANGED <<handling, cd, cc>>

\* await db.commit(): the row is stored under the next id
LsCommit ==
    /\ ls.pc = "commit"
    /\ \E o \in DbOutcomes :
           IF o = "ok"
           THEN ls' = [ls EXCEPT !.rows = Append(@, [ls.entry EXCEPT !.id = Len(ls.rows) + 1]),
                                 !.session = "clean", !.committed = TRUE,
                                 !.pc = "refresh"]
           ELSE ls' = [ls EXCEPT !.pc = "except"]
    /\ UNCHANGED <<handling, cd, cc>>

\* await db.refresh(log_entry): the object reads its row back
LsRefresh ==
    /\ ls.pc = "refresh"
    /\ \E o \in DbOutcomes :
           IF o = "ok"
           THEN ls' = [ls EXCEPT !.entry = ls.rows[Len(ls.rows)], !.pc = "backup"]
           ELSE ls' = [ls EXCEPT !.pc = "except"]
    /\ UNCHANGED <<handling, cd, cc>>

\* What _backup_to_spaces meets: spaces_client.enabled, log_entry.to_dict(), the upload
BackupEnvs ==
    {[enabled |-> FALSE, to_dict |-> "ok", put |-> "stored"],
     [enabled |-> TRUE, to_dict |-> "error", put |-> "stored"],
     [enabled |-> TRUE, to_dict |-> "ok", put |-> "stored"],
     [enabled |-> TRUE, to_dict |-> "ok", put |-> "error"]}

\* LoggingService._backup_to_spaces(log_entry) inside the try of lines 70-73: what
\* it does to the entry and to the bucket; nothing it meets is raised
backup_to_spaces(entry, env) ==
    IF ~env.enabled THEN [entry |-> entry, uploads |-> 0, stored |-> FALSE]
    ELSE IF env.to_dict = "error" THEN [entry |-> entry, uploads |-> 0, stored |-> FALSE]
    ELSE LET r == backup_request_log([env EXCEPT !.enabled = TRUE])
         IN  IF r.stored
             THEN [entry |-> [entry EXCEPT !.spaces_backup_key = entry.id,
                                           !.spaces_backup_timestamp = 1],
                   uploads |-> 1, stored |-> TRUE]
             ELSE [entry |-> entry, uploads |-> 1, stored |-> FALSE]

\* await LoggingService._backup_to_spaces(log_entry)
LsBackup ==
    /\ ls.pc = "backup"
    /\ \E env \in BackupEnvs :
           LET r == backup_to_spaces(ls.entry, env)
           IN  ls' = [ls EXCEPT !.entry = r.entry,
                                !.uploads = @ + r.uploads,
                                !.objects = IF r.stored THEN @ \cup {ls.entry.id} ELSE @,
                                !.pc = "return"]
    /\ UNCHANGED <<handling, cd, cc>>

\* return log_entry
LsReturn ==
    /\ ls.pc = "return"
    /\ ls' = [ls EXCEPT !.result = "log_entry", !.pc = "done"]
    /\ UNCHANGED <<handling, cd, cc>>

\* except Exception: logger.error, await db.rollback(), return None. What
\* rollback raises is raised by log_request
LsExcept ==
    /\ ls.pc = "except"
    /\ \E o \in DbOutcomes :
           IF o = "ok"
           THEN ls' = [ls EXCEPT !.session = "clean", !.result = "None", !.pc = "done"]
           ELSE ls' = [ls EXCEPT !.result = "exception", !.pc = "raised"]
    /\ UNCHANGED <<handling, cd, cc>>

LogServiceNext ==
    \/ LsCall
    \/ LsBuild
    \/ LsAdd
    \/ LsCommit
    \/ LsRefresh
    \/ LsBackup
    \/ LsReturn
    \/ LsExcept

LogServiceSpec == LogServiceInit /\ [][LogServiceNext]_vars

\* ------------------------------------------------------------------ claims
Answered == pc = "responded"

\* The answer carries the three fields error, message and retry_suggested
HasErrorFields == "detail" \in DOMAIN http /\ http.detail.kind = "fields"

\* The request's record in the log, when log_request was called for it
LoggedThis == logCalls >= 1 /\ log # <<>> /\ log[Len(log)].req = reqNo

\* C1: every request with a schema-valid body has caused exactly one call of
\* log_request by the time it is answered, whatever its terminal state.
C1_OneLogWritePerRequest ==
    (Answered /\ ValidRequest(body)) => logCalls = 1

\* C2: every failure after request validation is caught by the handler, recorded
\* in a log record with success=false and answered with the three-field error
\* body.
C2_FailuresCaughtLoggedShaped ==
    (Answered /\ ValidRequest(body) /\ cause # "none") =>
        /\ HasErrorFields
        /\ LoggedThis
        /\ log[Len(log)].data.success = FALSE

\* C3: a timed-out gateway call is answered 504 with error code request_timeout
\* and retry_suggested=true.
C3_TimeoutIs504 ==
    (Answered /\ outcome = [kind |-> "timeout"]) =>
        /\ http.status = 504
        /\ HasErrorFields
        /\ http.detail.error = "request_timeout"
        /\ http.detail.retry_suggested = TRUE

\* C4: an upstream HTTP 429 is answered 429 with error code rate_limit_exceeded
\* and retry_suggested=true.
C4_RateLimitIs429 ==
    (Answered /\ outcome = [kind |-> "status", code |-> 429]) =>
        /\ http.status = 429
        /\ HasErrorFields
        /\ http.detail.error = "rate_limit_exceeded"
        /\ http.detail.retry_suggested = TRUE

\* C5: an upstream HTTP 401 or 403 is answered 503 with error code
\* authentication_failed and retry_suggested=false.
C5_AuthRejectedIs503 ==
    (Answered /\ outcome \in {[kind |-> "status", code |-> 401],
                              [kind |-> "status", code |-> 403]}) =>
        /\ http.status = 503
        /\ HasErrorFields
        /\ http.detail.error = "authentication_failed"
        /\ http.detail.retry_suggested = FALSE

\* C6: a completion that neither strict parsing nor any extraction parses is
\* answered 502 with retry_suggested=true, for every message the parser produces.
C6_UnparseableIs502 ==
    (Answered /\ cause = "unparseable") =>
        /\ http.status = 502
        /\ HasErrorFields
        /\ http.detail.retry_suggested = TRUE

\* The entry as the entry point hands it to Plant validation
AsValidated(entry) == IF ep = "backend" THEN MapPlant(entry) ELSE entry

\* The parsed reply has a plants array of which no entry passes Plant validation
NoEntrySurvives ==
    /\ recommendations # None
    /\ "plants" \in DOMAIN recommendations
    /\ \A i \in 1..Len(recommendations.plants) :
           ~ValidPlant(AsValidated(recommendations.plants[i]))

\* C7: when no entry of the plants array passes Plant validation (the empty array
\* included), the operation fails with the "no valid plants" failure: no
\* RecommendationResponse is built and the request is answered 500 with
\* retry_suggested=true.
C7_NoValidPlantsIs500 ==
    (Answered /\ NoEntrySurvives) =>
        /\ response = None
        /\ exc # None /\ Contains(exc.text, NoValidPlantsText)
        /\ http.status = 500
        /\ HasErrorFields
        /\ http.detail.retry_suggested = TRUE

\* C7 witness: a non-empty plants array, every entry invalid, answered 500
C7_Witness ==
    /\ Answered
    /\ NoEntrySurvives
    /\ Len(recommendations.plants) > 0
    /\ http.status = 500

\* The key or the endpoint is missing from the environment
CredentialsMissing == api_key = "unset" \/ endpoint = "unset"

\* C8: with the key or the endpoint missing, every valid request is answered 503
\* with error, message and retry_suggested=false, and nothing is sent upstream.
C8_UnconfiguredIs503 ==
    (Answered /\ ValidRequest(body) /\ CredentialsMissing) =>
        /\ http.status = 503
        /\ HasErrorFields
        /\ http.detail.retry_suggested = FALSE
        /\ posts = 0

\* C9: a body that violates the request schema is answered 422 whether or not the
\* gateway is configured, with no gateway call, no context derivation and no log
\* record with success=true.
C9_SchemaViolationIs422 ==
    (Answered /\ ~ValidRequest(body)) =>
        /\ http.status = 422
        /\ posts = 0
        /\ ctx = None
        /\ ~(LoggedThis /\ log[Len(log)].data.success)

\* A Plant as the response schema requires it
WellFormedPlant(pl) ==
    /\ DOMAIN pl = PlantFields
    /\ pl.sun \in SunRequirementEnum
    /\ pl.water \in WaterLevelEnum
    /\ pl.maintenance \in MaintenanceLevelEnum
    /\ pl.plant_now \in BOOLEAN

\* C10: every HTTP 200 carries between 1 and 10 plants, each with the eight
\* fields and enum values of the schema, and each built from an entry of the
\* reply that passed Plant validation.
C10_OkHasOneToTenValidPlants ==
    (http # None /\ http.status = 200) =>
        /\ http.body = response
        /\ Len(http.body.plants) \in 1..10
        /\ \A i \in 1..Len(http.body.plants) :
               /\ WellFormedPlant(http.body.plants[i])
               /\ \E j \in 1..Len(recommendations.plants) :
                      /\ ValidPlant(AsValidated(recommendations.plants[j]))
                      /\ http.body.plants[i] = Plant(AsValidated(recommendations.plants[j]))

\* C10 witness: a 200 with exactly ten plants
C10_Witness ==
    /\ http # None
    /\ http.status = 200
    /\ Len(http.body.plants) = MaxItems

\* The plants array of the parsed reply has gone through the validation loop
PlantsValidated ==
    /\ recommendations # None
    /\ "plants" \in DOMAIN recommendations
    /\ pc # "parsed"

\* The entries of an array that pass Plant validation, in the order of the array
Passing(arr) == SelectSeq(arr, LAMBDA e : ValidPlant(AsValidated(e)))

\* The Plants those entries become
PassingPlants(arr) ==
    LET passing == Passing(arr)
    IN  [i \in 1..Len(passing) |-> Plant(AsValidated(passing[i]))]

OutSeason == Get(recommendations, "season", ctx.season)

\* The reply is a well-formed completion: a plants array of 1 to 10 entries that
\* all pass Plant validation, and a season the response schema accepts
WellFormedReply ==
    /\ recommendations # None
    /\ "plants" \in DOMAIN recommendations
    /\ Len(recommendations.plants) \in 1..MaxItems
    /\ \A i \in 1..Len(recommendations.plants) :
           ValidPlant(AsValidated(recommendations.plants[i]))
    /\ Len(OutSeason) >= SeasonMinLen
    /\ Len(OutSeason) <= SeasonMaxLen

\* The records log_request was handed for the request being handled
RecordsOfThis == {i \in 1..Len(log) : log[i].req = reqNo}

\* C12: a valid request whose reply is a well-formed completion with n valid
\* plants (1 <= n <= 10) is answered 200 with n plants and generated_by set, and
\* log_request was handed exactly one record for it, with success true and
\* plant_count n.
C12_WellFormedReplyIs200AndLogged ==
    (Answered /\ WellFormedReply) =>
        /\ http.status = 200
        /\ Len(http.body.plants) = Len(recommendations.plants)
        /\ http.body.generated_by = "genai_agent"
        /\ logCalls = 1
        /\ Cardinality(RecordsOfThis) = 1
        /\ \A i \in RecordsOfThis :
               /\ log[i].data.success = TRUE
               /\ log[i].data.plant_count = Len(recommendations.plants)

\* C12 witness: a well-formed reply of nine plants has been answered
C12_Witness ==
    /\ Answered
    /\ WellFormedReply
    /\ Len(recommendations.plants) = MaxItems - 1
    /\ http.status = 200

\* C13: LoggingService.log_request never raises to its caller: whatever fails in
\* the database add, commit, refresh or rollback, or in the backup, the call
\* returns, with the RequestLog or with None.
C13_LogRequestNeverRaises ==
    /\ ls.pc # "raised"
    /\ ls.pc = "done" => ls.result \in {"log_entry", "None"}

\* An upload is attempted only for a call whose commit succeeded
MirrorOnlyAfterWrite == ls.uploads > 0 => ls.committed

\* A call attempts at most one upload
MirrorAtMostOnce == ls.uploads <= 1

\* A call whose commit succeeded ends by returning the log entry
CommittedIsReturned ==
    (ls.pc \in {"done", "raised"} /\ ls.committed) => ls.result = "log_entry"

\* C14: the mirror to object storage is attempted only after the primary write
\* succeeded and at most once per record, and whenever the database commit
\* succeeded LoggingService.log_request returns the log entry, whatever the
\* upload did.
C14_MirrorNeverFailsTheWrite ==
    /\ MirrorOnlyAfterWrite
    /\ MirrorAtMostOnce
    /\ CommittedIsReturned

\* The answer the handler gives for what it holds before the log write: the
\* response it built, or the classified exception
AnswerOf(entry, resp, e) ==
    IF resp # None THEN [status |-> 200, body |-> resp]
    ELSE LET c == Classify(entry, e.text)
         IN  [status |-> c.status_code,
              detail |-> [kind |-> "fields", error |-> c.error,
                          message |-> <<"Unable", "to", "generate", "plant",
                                        "recommendations", ":">> \o e.text,
                          retry_suggested |-> c.retry_suggested]]

\* C15: the HTTP status and body of a request are the same for every outcome of
\* its log write and backup upload (stored, storage disabled, upload error,
\* serialization error): nothing log_request meets reaches the handler, turns a
\* built response into a failure, or causes a second log write.
C15_LogOutcomeNeverChangesAnswer ==
    (Answered /\ logCalls >= 1) =>
        /\ logCalls = 1
        /\ http = AnswerOf(ep, response, exc)
        /\ response # None => exc = None

\* C15 witness: a 200 whose log write met a serialization error
C15_Witness ==
    /\ Answered
    /\ http.status = 200
    /\ logOutcome # None
    /\ logOutcome.env.dumps = "error"
    /\ ~logOutcome.line

\* C16: for one request at most one HTTP POST is sent to the upstream endpoint,
\* whatever the outcome; a POST is only ever sent by a request that has sent none.
C16_AtMostOnePost ==
    /\ posts <= 1
    /\ outcome # None => posts = 1

\* C16 witness: a request whose POST timed out has been answered
C16_Witness ==
    /\ Answered
    /\ outcome # None
    /\ outcome.kind = "timeout"
    /\ posts = 1

\* The configured flag of a recommendations health answer, under the name the
\* entry point gives it
ConfiguredFlag(j) ==
    IF "llm_service_configured" \in DOMAIN j THEN j.llm_service_configured
    ELSE j.genai_agent_configured

RecommendationsHealthPath == "/api/recommendations/health"

\* C17: with the LLM credentials absent at start-up the recommendation endpoint
\* stays unavailable and only it: after any sequence of requests every valid POST
\* is answered 503, every health probe is answered 200 with status "healthy",
\* the recommendations health answer carries the configured flag false, and in
\* every configuration that flag equals the condition gating the endpoint.
C17_UnavailableIsPermanentAndConfined ==
    /\ enabled = is_configured(api_key, endpoint)
    /\ (CredentialsMissing /\ Answered /\ ValidRequest(body)) => http.status = 503
    /\ health # None =>
           /\ health.status_code = 200
           /\ health.json.status = "healthy"
           /\ health.path = RecommendationsHealthPath =>
                  /\ ConfiguredFlag(health.json) = GateOpen
                  /\ CredentialsMissing => ConfiguredFlag(health.json) = FALSE

\* C17 witness: without credentials, a second POST with a valid body has been
\* answered 503 and the recommendations health probe made after it reports the
\* flag false
C17_Witness ==
    /\ CredentialsMissing
    /\ reqNo >= 2
    /\ health # None
    /\ health.after # None
    /\ health.after.valid
    /\ health.after.status = 503
    /\ health.path = RecommendationsHealthPath
    /\ ConfiguredFlag(health.json) = FALSE

\* A call of get_hardiness_zone has returned
ZoneReturned == cd.fn = "get_hardiness_zone" /\ cd.result # NotYet

\* The i-th key of the table occurs in the lower-cased location
KeyOccurs(i, location) == Contains(str_lower(location), zone_map[i].city)

\* C18: get_hardiness_zone returns for every location string: the zone of the
\* first key of the table, in table order, that occurs in the lower-cased
\* location, and "6b" when none occurs; "Denver, CO" gives "5b" and
\* "Unknown City, ZZ" gives "6b".
C18_ZoneIsFirstKeyInTableOrder ==
    ZoneReturned =>
        /\ cd.result \in Zones
        /\ \A i \in 1..Len(zone_map) :
               (KeyOccurs(i, cd.location) /\ \A j \in 1..(i - 1) : ~KeyOccurs(j, cd.location))
                   => cd.result = zone_map[i].zone
        /\ (\A i \in 1..Len(zone_map) : ~KeyOccurs(i, cd.location)) => cd.result = "6b"
        /\ cd.location = DenverCO => cd.result = "5b"
        /\ cd.location = UnknownCityZZ => cd.result = "6b"

\* C18 witness: a location naming Dallas before Denver gets Denver's zone, the
\* earlier key of the table
C18_Witness ==
    /\ ZoneReturned
    /\ cd.location = <<"D", "a", "l", "l", "a", "s", " ", "t", "o", " ", "D", "e", "n", "v", "e", "r">>
    /\ cd.result = "5b"

\* The season a label names
SeasonOf(label) ==
    CASE label \in {"Spring Planting Season", "Spring - Prime planting season"} -> "spring"
      [] label \in {"Summer Growing Season", "Summer - Maintenance and late planting"} -> "summer"
      [] label \in {"Fall Planting Season", "Fall - Fall planting and preparation season"} -> "fall"
      [] label \in {"Winter Planning Season", "Winter - Indoor planning season"} -> "winter"
      [] OTHER -> "no season"

\* The season of a month of the calendar
SeasonOfMonth(month) ==
    CASE month \in 3..5 -> "spring"
      [] month \in 6..8 -> "summer"
      [] month \in 9..11 -> "fall"
      [] month \in {12, 1, 2} -> "winter"

\* C19: for every month 1..12 the season function returns one of its four
\* labels: spring for 3-5, summer for 6-8, fall for 9-11, winter for 12, 1, 2;
\* the zone argument has no influence. This holds for get_current_season and for
\* GenAIAgentService._get_current_season.
C19_SeasonPartitionsTheYear ==
    /\ (cd.fn = "get_current_season" /\ cd.result # NotYet) =>
           /\ SeasonOf(cd.result) = SeasonOfMonth(cd.month)
           /\ \A z \in Zones : get_current_season(z, cd.month) = cd.result
    /\ (cd.fn = "_get_current_season" /\ cd.result # NotYet) =>
           SeasonOf(cd.result) = SeasonOfMonth(cd.month)

\* C19 witness: December in zone 10b is the winter label
C19_Witness ==
    /\ cd.fn = "get_current_season"
    /\ cd.month = 12
    /\ cd.zone = "10b"
    /\ cd.result = "Winter Planning Season"

\* The four sun levels
SunLevels == {"full sun", "partial sun", "partial shade", "shade"}

\* The descriptions _get_sun_exposure gives the eight codes
SunDescriptions == {get_sun_exposure(d) : d \in DirectionEnum}

\* A direction argument that is one of the eight codes in some letter case
Recognized(direction) == Upper(direction) \in DirectionEnum

SunReturned(fn) == cd.fn = fn /\ cd.result # NotYet

ContentParsed ==
    /\ ep = "backend"
    /\ agent_response # None
    /\ pc # "parsing"
    /\ agent_response.choices # <<>>
    /\ agent_response.choices[1].key \in {"message", "delta"}

\* Fallback (a) on its own: the text a json fence holds parses
JsonFenceParses(content) ==
    /\ \E i \in 1..Len(content) : content[i] = "FENCE_JSON"
    /\ LET json_start == FindFrom(content, {"FENCE_JSON"}, 0) + 1
           json_end == FindFrom(content, {"FENCE", "FENCE_JSON"}, json_start)
       IN  JsonLoads(Strip(Slice(content, json_start, json_end))).ok

\* Fallback (b) on its own: the text a bare fence holds parses
BareFenceParses(content) ==
    /\ \E i \in 1..Len(content) : content[i] = "FENCE"
    /\ LET json_start == FindFrom(content, {"FENCE"}, 0) + 1
           json_end == FindFrom(content, {"FENCE", "FENCE_JSON"}, json_start)
       IN  JsonLoads(Strip(Slice(content, json_start, json_end))).ok

\* Fallback (c) on its own: the greedy brace substring parses
BracesParse(content) ==
    /\ BraceMatch(content).found
    /\ JsonLoads(BraceMatch(content).group).ok

\* C21: parse_agent_response tries strict parsing, then the json fence, the bare
\* fence and the greedy brace substring in this order; a later fallback is tried
\* whenever an earlier one is absent or fails, so the operation fails only when
\* none of them parses.
C21_FallbacksAreTriedInTurn ==
    ContentParsed =>
        LET content == agent_response.choices[1].content
        IN  (recommendations # None) <=>
                \/ JsonLoads(content).ok
                \/ JsonFenceParses(content)
                \/ BareFenceParses(content)
                \/ BracesParse(content)

\* The completion parsed to an object that has no plants key, and the step after
\* the parse has run
NoPlantsKey ==
    /\ recommendations # None
    /\ "plants" \notin DOMAIN recommendations
    /\ pc # "parsed"

\* The texts of the failure to parse a completion, in either entry point
UnparseableText(text) ==
    \/ Contains(text, ParseFailedPrefix)
    \/ Contains(text, <<"Invalid", "JSON", "response", "from", "GenAI", "Agent", ":">>)

\* C22: a parsed object without a plants key fails the request with the missing
\* field failure, whose text is neither that of an unparseable completion nor
\* that of no valid plants; no response is built and the request is not answered
\* 200. No other failure carries the missing field text.
C22_MissingPlantsIsItsOwnFailure ==
    /\ NoPlantsKey =>
           /\ exc # None
           /\ Contains(exc.text, MissingPlantsText)
           /\ ~Contains(exc.text, NoValidPlantsText)
           /\ ~UnparseableText(exc.text)
           /\ response = None
           /\ (http # None => http.status # 200)
    /\ (exc # None /\ exc.type = "Exception" /\ Contains(exc.text, MissingPlantsText)) =>
           /\ recommendations # None
           /\ "plants" \notin DOMAIN recommendations

C22_Witness ==
    /\ NoPlantsKey
    /\ pc = "responded"
    /\ http.detail.kind = "fields"
    /\ Contains(http.detail.message, MissingPlantsText)

\* ------------------------------------- the handler's functions on their own
\* The keys of an entry in the agent's field names
AgentKeys ==
    {"name", "scientific_name", "sun_requirements", "water_needs",
     "maintenance_level", "plant_now", "description"}

\* For each key a value the Plant schema accepts and one it rejects
Accepted ==
    [name |-> "Yucca", scientific_name |-> "Yucca rupicola",
     sun_requirements |-> "Full Sun", water_needs |-> "Low",
     maintenance_level |-> "High", plant_now |-> "yes",
     description |-> "Drought tolerant."]

Rejected ==
    [name |-> "", scientific_name |-> "", sun_requirements |-> "Sunny",
     water_needs |-> "Moist", maintenance_level |-> "None", plant_now |-> "maybe",
     description |-> "Short"]

\* Entries in which each key is absent, accepted or rejected, and entries in the
\* Plant field names
Entries ==
    {[k \in {x \in AgentKeys : c[x] # "absent"} |->
          IF c[k] = "accepted" THEN Accepted[k] ELSE Rejected[k]] :
         c \in [AgentKeys -> {"absent", "accepted", "rejected"}]}
    \cup {ServiceEntry, [ServiceEntry EXCEPT !.sun = "Sunny"]}

\* Error texts: phrases of the classifier and other words, in either order
Phrases ==
    << <<"Not", "Configured">>, <<"Authentication">>, <<"API", "Key">>, <<"Timeout">>,
       <<"Rate", "Limit">>, <<"Invalid">>, <<"JSON">>, <<"timed", "out">> >>

RECURSIVE Join(_, _, _)
Join(chosen, i, forward) ==
    IF i > Len(Phrases) THEN <<>>
    ELSE LET here == IF i \in chosen THEN Phrases[i] ELSE <<>>
             rest == Join(chosen, i + 1, forward)
         IN  IF forward THEN here \o rest ELSE rest \o here

ErrorTexts ==
    {Join(chosen, 1, forward) : chosen \in SUBSET (1..Len(Phrases)), forward \in BOOLEAN}

\* One call of one function of the handler
HandlerCalls ==
    {[fn |-> "validate_plants", plants |-> <<e>>, returned |-> FALSE, result |-> NotYet] :
         e \in Entries}
    \cup {[fn |-> "classify", entry |-> p, error_message |-> t, returned |-> FALSE,
           result |-> NotYet] :
              p \in {"service", "backend"}, t \in ErrorTexts}

FunctionInit ==
    /\ Quiet
    /\ ls = None
    /\ cc = None
    /\ cd \in HandlerCalls

\* The validation loop of the backend handler on a plants array
ValidatePlants ==
    /\ cd.fn = "validate_plants"
    /\ ~cd.returned
    /\ cd' = [cd EXCEPT !.returned = TRUE, !.result = BackendValidatePlants(cd.plants)]
    /\ UNCHANGED <<handling, ls, cc>>

\* The if/elif chain of either handler on str(e)
ClassifyError ==
    /\ cd.fn = "classify"
    /\ ~cd.returned
    /\ cd' = [cd EXCEPT !.returned = TRUE, !.result = Classify(cd.entry, cd.error_message)]
    /\ UNCHANGED <<handling, ls, cc>>

FunctionNext ==
    \/ ValidatePlants
    \/ ClassifyError

FunctionSpec == FunctionInit /\ [][FunctionNext]_vars

\* The agent's key each Plant field is read from, and the value of an absent key
AgentKeyOf ==
    [name |-> "name", scientific |-> "scientific_name", sun |-> "sun_requirements",
     water |-> "water_needs", maintenance |-> "maintenance_level",
     plant_now |-> "plant_now", care_instructions |-> "description",
     notes |-> "description"]

DefaultOf ==
    [name |-> "Unknown Plant", scientific |-> "Unknown species", sun |-> "Partial Sun",
     water |-> "Medium", maintenance |-> "Medium", plant_now |-> "false",
     care_instructions |-> "No care instructions available",
     notes |-> "No additional notes available"]

Remapped(e) ==
    [f \in PlantFields |->
         IF AgentKeyOf[f] \in DOMAIN e THEN e[AgentKeyOf[f]] ELSE DefaultOf[f]]

EntryValidated == cd.fn = "validate_plants" /\ cd.returned

\* C23: the backend remaps each entry before validation (name, scientific_name,
\* sun_requirements, water_needs, maintenance_level, plant_now to the Plant
\* fields, description to both care_instructions and notes, an absent key to its
\* default), and the remapped record is kept exactly when the Plant schema
\* accepts it.
C23_EntriesAreRemappedThenValidated ==
    EntryValidated =>
        LET r == Remapped(cd.plants[1])
        IN  /\ ValidPlant(r) => cd.result = <<Plant(r)>>
            /\ ~ValidPlant(r) => cd.result = <<>>

\* An entry of two keys is kept with the defaults of the others, its description
\* in both text fields
C23_Witness ==
    /\ EntryValidated
    /\ DOMAIN cd.plants[1] = {"name", "description"}
    /\ Len(cd.result) = 1
    /\ cd.result[1].sun = "Partial Sun"
    /\ cd.result[1].care_instructions = "Drought tolerant."
    /\ cd.result[1].notes = "Drought tolerant."
    /\ cd.result[1].plant_now = FALSE

\* The position of a step in the order Received, ContextDerived, PromptBuilt,
\* AwaitingGateway, ParsingResponse, Succeeded or Failed
Rank(p) ==
    CASE p = "idle" -> 0
      [] p = "received" -> 1
      [] p = "handler" -> 2
      [] p = "derived" -> 3
      [] p = "prompted" -> 4
      [] p = "awaiting" -> 5
      [] p = "parsing" -> 6
      [] p = "parsed" -> 7
      [] p = "built" -> 8
      [] p \in {"logged", "raised"} -> 9
      [] p = "failed" -> 10
      [] p = "responded" -> 11

\* A request never returns to an earlier state; only a new request starts over
NeverBack == Rank(pc') >= Rank(pc) \/ pc' \in {"idle", "received"}

\* With the gateway unconfigured no context is derived and no prompt is built
NothingDerivedUnconfigured == ~GateOpen => (ctx' = None /\ prompt' = FALSE)

\* C24: a request goes through Received, ContextDerived, PromptBuilt,
\* AwaitingGateway, ParsingResponse in this order and ends Succeeded or Failed
\* without returning to an earlier state; the configuration check runs before
\* ContextDerived, so with the gateway unconfigured the request fails without
\* deriving context or building a prompt.
C24_OrderedStatesAndEarlyGate == [][NeverBack /\ NothingDerivedUnconfigured]_vars

\* The rules of the classifier in their order: what each looks for in the
\* lower-cased text, and the status it gives
RuleStatus == <<503, 503, 504, 429, 502>>

RuleCount == Len(RuleStatus)

RuleMatches(i, text) ==
    CASE i = 1 -> Contains(text, <<"not", "configured">>)
      [] i = 2 -> Contains(text, <<"authentication">>) \/ Contains(text, <<"api", "key">>)
      [] i = 3 -> Contains(text, <<"timeout">>)
      [] i = 4 -> Contains(text, <<"rate", "limit">>)
      [] i = 5 -> Contains(text, <<"invalid">>) /\ Contains(text, <<"json">>)

\* The status of the earliest rule the text matches, 500 when it matches none
StatusByPrecedence(text) ==
    IF \E i \in 1..RuleCount : RuleMatches(i, text)
    THEN RuleStatus[CHOOSE i \in 1..RuleCount :
                        /\ RuleMatches(i, text)
                        /\ \A j \in 1..(i - 1) : ~RuleMatches(j, text)]
    ELSE 500

Classified == cd.fn = "classify" /\ cd.returned

\* C25: the classifier gives every error text the status of the earliest rule its
\* lower-cased form matches ("not configured" 503, "authentication" or "api key"
\* 503, "timeout" 504, "rate limit" 429, "invalid" with "json" 502, otherwise 500),
\* and retry_suggested is false exactly when the status is 503.
C25_ClassifierFollowsPrecedence ==
    Classified =>
        /\ cd.result.status_code = StatusByPrecedence(LowerText(cd.error_message))
        /\ cd.result.retry_suggested = (cd.result.status_code # 503)

\* A text with the phrases of the credentials, timeout and rate limit rules,
\* written in capitals, is classified by the first of them
C25_Witness ==
    /\ Classified
    /\ cd.entry = "backend"
    /\ Contains(cd.error_message, <<"Timeout">>)
    /\ Contains(cd.error_message, <<"Rate", "Limit">>)
    /\ Contains(cd.error_message, <<"API", "Key">>)
    /\ ~Contains(cd.error_message, <<"Not", "Configured">>)
    /\ cd.result.status_code = 503
    /\ cd.result.error = "authentication_failed"

\* The statuses section 8 of the interface lists for the endpoint
ListedStatuses == {200, 422, 429, 500, 502, 503, 504}

\* C26: every status POST /api/recommendations answers with is one of 200, 422,
\* 429, 500, 502, 503, 504, whatever status the gateway answered with, in both
\* entry points.
C26_StatusIsListed ==
    (pc = "responded" /\ http # None) => http.status \in ListedStatuses

\* More entries of the plants array pass Plant validation than a response holds
TooManyPass ==
    /\ PlantsValidated
    /\ Len(Passing(recommendations.plants)) > MaxItems

\* C27: when more than 10 entries pass Plant validation the request does not
\* succeed with a truncated list: no response is built, the request is answered
\* 500 with retry_suggested=true, and its one log record has success=false.
C27_TooManyPlantsIs500 ==
    (Answered /\ TooManyPass) =>
        /\ response = None
        /\ http.status = 500
        /\ HasErrorFields
        /\ http.detail.retry_suggested = TRUE
        /\ Cardinality(RecordsOfThis) = 1
        /\ \A i \in RecordsOfThis :
               /\ log[i].data.success = FALSE
               /\ log[i].data.plant_count = 0

C27_Witness ==
    /\ Answered
    /\ TooManyPass
    /\ ep = "backend"
    /\ Len(recommendations.plants) = MaxItems + 1
    /\ http.status = 500
    /\ Contains(http.detail.message, ResponseInvalidText)

\* ------------------------------------------- requests handled concurrently
\* The handler is a coroutine; it yields at the POST to the gateway and runs from
\* the reply to its return without yielding (log_request awaits nothing that
\* suspends). Each call has its own request and its own log_data.
MaxSeconds == 1      \* the seconds the clock runs through

\* The requests in flight
Clients == {"a", "b"}

ConcurrentBodies == {b \in Bodies : ValidRequest(b) }

\* What the gateway answers a request with
ConcurrentOutcomes ==
    {[kind |-> "ok",
      data |-> [choices |-> <<[key |-> "message", content |-> <<"OBJ">>]>>,
                object |-> [plants |-> <<AgentEntry, ServiceEntry>>]]],
     [kind |-> "ok",
      data |-> [choices |-> <<[key |-> "message", content |-> <<"BAD">>]>>,
                object |-> NoObject]],
     [kind |-> "status", code |-> 429],
     [kind |-> "transport"]}

\* The month it is
ThisMonth == CHOOSE month \in Months : TRUE

\* The season the handler derives for a request
SeasonFor(entry, request) ==
    IF entry = "service" THEN service_get_current_season(ThisMonth)
    ELSE get_current_season(get_hardiness_zone(request.location), ThisMonth)

\* What the call and the steps after it raise for an outcome of the POST, or
\* the response they build
reply_result(entry, request, o) ==
    IF o.kind # "ok"
    THEN [ok |-> FALSE,
          exc |-> IF entry = "service" THEN service_post_error(o) ELSE agent_post_error(o)]
    ELSE LET p == IF entry = "service" THEN service_parse(o.data)
                  ELSE parse_agent_response(o.data)
         IN  IF ~p.ok THEN [ok |-> FALSE, exc |-> [type |-> "Exception", text |-> p.error]]
             ELSE LET b == IF entry = "service"
                           THEN service_build(p.value, request, SeasonFor(entry, request))
                           ELSE backend_build(p.value, request, SeasonFor(entry, request))
                  IN  IF b.ok THEN [ok |-> TRUE, value |-> b.value]
                      ELSE [ok |-> FALSE, exc |-> [type |-> "Exception", text |-> b.error]]

\* The handler from the reply of the gateway to its return: the record it hands
\* to log_request, if any, and the answer
handle_reply(entry, request, data, o) ==
    LET r == reply_result(entry, request, o)
    IN  IF r.ok
        THEN [logged |-> TRUE,
              record |-> [data EXCEPT !.success = TRUE,
                                      !.plant_count = Len(r.value.plants)],
              http |-> [status |-> 200, body |-> r.value]]
        ELSE IF r.exc.type = "HTTPException"
        THEN [logged |-> FALSE,
              record |-> data,
              http |-> [status |-> r.exc.status_code,
                        detail |-> [kind |-> "text", text |-> r.exc.text]]]
        ELSE LET c == Classify(entry, r.exc.text)
             IN  [logged |-> TRUE,
                  record |-> [data EXCEPT !.success = FALSE,
                                          !.error = [text |-> r.exc.text]],
                  http |-> [status |-> c.status_code,
                            detail |-> [kind |-> "fields", error |-> c.error,
                                        message |-> <<"Unable", "to", "generate", "plant",
                                                      "recommendations", ":">> \o r.exc.text,
                                        retry_suggested |-> c.retry_suggested]]]

\* The key backup_request_log builds: the record's id, "unknown" without one,
\* and the time of the upload to the second (the date in the path, HHMMSS in the
\* name)
request_log_key(data, timestamp) ==
    [log_id |-> Get(data, "id", "unknown"), at |-> timestamp]

IdleFrame == [pc |-> "idle", request |-> None, log_data |-> None, http |-> None]

ConcurrentInit ==
    /\ ep \in {"service", "backend"}
    /\ api_key = "set"
    /\ endpoint = "set"
    /\ enabled = is_configured(api_key, endpoint)
    /\ reqNo = 0
    /\ pc = "idle"
    /\ body = None
    /\ log = <<>>
    /\ Fresh
    /\ health = None
    /\ ls = None
    /\ cd = None
    /\ cc = [now |-> 0,
             frames |-> [c \in Clients |-> IdleFrame],
             log |-> <<>>,
             puts |-> <<>>,
             objects |-> <<>>]

\* The handler with log_data kept in one place for all calls
ReceiveSharedLogData(c) ==
    /\ cc.frames[c].pc = "idle"
    /\ \E b \in ConcurrentBodies :
           cc' = [cc EXCEPT !.frames =
                      [d \in Clients |->
                           IF d = c
                           THEN [pc |-> "awaiting", request |-> b,
                                 log_data |-> NewLogData(b), http |-> None]
                           ELSE IF cc.frames[d].pc = "awaiting"
                           THEN [cc.frames[d] EXCEPT !.log_data = NewLogData(b)]
                           ELSE cc.frames[d]]]
    /\ UNCHANGED <<handling, ls, cd>>

\* A request arrives: the handler builds log_data, derives the context, builds
\* the prompt and sends the POST
Receive(c) ==
    /\ cc.frames[c].pc = "idle"
    /\ \E b \in ConcurrentBodies :
           cc' = [cc EXCEPT !.frames[c] =
                      [pc |-> "awaiting", request |-> b, log_data |-> NewLogData(b),
                       http |-> None]]
    /\ UNCHANGED <<handling, ls, cd>>

\* The object store after put_object(Key=key, Body=data): an object under the
\* same key is replaced
put_object(objects, key, data) ==
    SelectSeq(objects, LAMBDA x : x.key # key) \o <<[key |-> key, data |-> data]>>

\* The reply arrives: the handler runs to its return, log_request included
Complete(c) ==
    /\ cc.frames[c].pc = "awaiting"
    /\ \E o \in ConcurrentOutcomes, env \in LogEnvs :
         \E r \in {handle_reply(ep, cc.frames[c].request, cc.frames[c].log_data, o)},
            w \in {log_request_effect(env)} :
           LET key == request_log_key(r.record, cc.now)
           IN  cc' = [cc EXCEPT
                          !.frames[c] = [@ EXCEPT !.pc = "done", !.log_data = r.record,
                                                  !.http = r.http],
                          !.log = IF r.logged /\ w.line
                                  THEN Append(@, [req |-> c, data |-> r.record])
                                  ELSE @,
                          !.puts = IF r.logged /\ w.stored
                                   THEN Append(@, [req |-> c, key |-> key])
                                   ELSE @,
                          !.objects = IF r.logged /\ w.stored
                                      THEN put_object(@, key, r.record)
                                      ELSE @]
    /\ UNCHANGED <<handling, ls, cd>>

\* A second passes
Tick ==
    /\ cc.now < MaxSeconds
    /\ cc' = [cc EXCEPT !.now = @ + 1]
    /\ UNCHANGED <<handling, ls, cd>>

ConcurrentNext ==
    \/ \E c \in Clients : Receive(c)
    \/ \E c \in Clients : Complete(c)
    \/ Tick

ConcurrentSpec == ConcurrentInit /\ [][ConcurrentNext]_vars

\* The five input fields of a record are those of a request
InputsOf(data, request) ==
    /\ data.location = request.location
    /\ data.direction = request.direction
    /\ data.water = request.water
    /\ data.maintenance = request.maintenance
    /\ data.garden_type = request.garden_type

\* C28: every log record the handler writes agrees with the answer of its
\* request: success is true exactly when the answer is 200, and then error is
\* unset and plant_count is the number of plants returned (at least 1); a record
\* with success false has plant_count 0 and the text the failure was classified
\* by; and its five input fields are those of its own request, however the
\* concurrent requests interleave.
C28_RecordAgreesWithAnswer ==
    \A i \in 1..Len(cc.log) :
        LET data == cc.log[i].data
            f == cc.frames[cc.log[i].req]
        IN  /\ f.pc = "done"
            /\ InputsOf(data, f.request)
            /\ data.success = (f.http.status = 200)
            /\ data.success =>
                   /\ data.error = None
                   /\ data.plant_count = Len(f.http.body.plants)
                   /\ data.plant_count >= 1
            /\ ~data.success =>
                   /\ data.plant_count = 0
                   /\ data.error # None
                   /\ f.http.detail.kind = "fields"
                   /\ f.http.status = Classify(ep, data.error.text).status_code
                   /\ f.http.detail.message =
                          <<"Unable", "to", "generate", "plant", "recommendations", ":">>
                              \o data.error.text

\* Two requests of different bodies were in flight together and both are
\* logged, one succeeded and one failed
C28_Witness ==
    /\ Len(cc.log) = 2
    /\ cc.log[1].req # cc.log[2].req
    /\ cc.frames[cc.log[1].req].request # cc.frames[cc.log[2].req].request
    /\ cc.log[1].data.success
    /\ ~cc.log[2].data.success

\* C29: the backups of two different log records never share an object-storage
\* key, so none overwrites another, also for two requests logged within the same
\* second and for the records of log_request(log_data), which carry no id.
C29_BackupKeysAreDistinct ==
    /\ \A i, j \in 1..Len(cc.puts) : i # j => cc.puts[i].key # cc.puts[j].key
    /\ Len(cc.objects) = Len(cc.puts)

\* The call has ended by returning None
ReturnedNone == ls.pc = "done" /\ ls.result = "None"

\* The call has ended by returning the log entry
ReturnedEntry == ls.pc = "done" /\ ls.result = "log_entry"

\* On the returned entry the two backup fields are set together, exactly when
\* the upload of this entry stored an object
BackupFieldsTogether ==
    ReturnedEntry =>
        /\ (ls.entry.spaces_backup_key # 0) <=> (ls.entry.spaces_backup_timestamp # 0)
        /\ (ls.entry.spaces_backup_key # 0) <=> (ls.entry.id \in ls.objects)

\* C30: LoggingService.log_request returns None only when no row of the request
\* was committed and returns the log entry whenever the commit succeeded; on the
\* returned entry spaces_backup_key and spaces_backup_timestamp are both set,
\* exactly when the upload returned a key, or both unset.
C30_NoneOnlyWithoutCommit ==
    /\ ReturnedNone => ~ls.committed
    /\ (ls.pc \in {"done", "raised"} /\ ls.committed) => ReturnedEntry
    /\ BackupFieldsTogether

====
